---- MODULE Spec2Model ----
(***************************************************************************)
(* A model of the klipper host code: the shared stepper enable pin         *)
(* (klippy/stepper.py), the build-time command dictionary generator        *)
(* (scripts/buildcommands.py), the G-code parser (klippy/gcode.py) and the *)
(* C helper interface declared in klippy/chelper.py (step compression,     *)
(* stepper synchronisation and the serial queue).                          *)
(*                                                                         *)
(* Each subsystem has its own variables, its own initial predicate and its *)
(* own specification; a specification leaves the variables of the other    *)
(* subsystems in their constructed state.                                  *)
(***************************************************************************)
EXTENDS Integers, Sequences, FiniteSets, TLC

VARIABLES
    \* ---- StepperEnablePin (stepper.py) ----
    enable_count,      \* StepperEnablePin.enable_count
    pin_value,         \* last value handed to mcu_enable.set_digital ("none" before)
    pin_time,          \* print_time of that last set_digital
    enable_call,       \* the last set_enable call and what it wrote
    need_motor_enable, \* PrinterStepper.need_motor_enable of the steppers that
                       \* share the pin
    hstep,             \* stepper 1 as a PrinterHomingStepper: its phase settings
                       \* and the last get_homed_offset call
    \* ---- buildcommands.py main() ----
    b_pc,              \* "parse", "ids", "generate", "done" or "error" (sys.exit / exception)
    nreq,              \* requests of the input file read so far
    commands,          \* main: commands (the declared command names)
    messages_by_name,  \* main: messages_by_name
    encoders,          \* main: encoders, a list of (msgname or None, msg)
    static_strings,    \* HandleStaticStrings.static_strings
    constants,         \* HandleConstants.constants
    msg_to_id,         \* main: msg_to_id
    msgid,             \* main: msgid, the last id handed out
    id_cmds,           \* command names the id loop has not visited yet
    id_enc,            \* encoders the id loop has visited
    encoder_defs,      \* build_encoders: the command_encoder structs emitted
    static_code,       \* HandleStaticStrings.generate_code: the if-clauses emitted
    datadict,          \* build_identify: the data dictionary, as json.dumps writes it
    \* ---- GCodeParser (gcode.py) and the objects it drives ----
    inputfile,         \* GCodeParser.inputfile (constructor argument)
    heaters,           \* which of heater_nozzle, heater_bed, fan build_config found
    gc,                \* the GCodeParser object's fields (its toolhead included) and
                       \* the log of the last reactor callback
    now,               \* the reactor's clock, in milliseconds
    nreads,            \* chunks of input read so far
    \* ---- stepcompress and steppersync (C helper) ----
    sc,                \* the compressors of sc_list, by stepper index
    ss,                \* the steppersync object and what it handed to the serial queue
    \* ---- serialqueue (C helper), the wire and the MCU's receiver ----
    sq,                \* the serialqueue object
    mcu,               \* the MCU: the sequence it expects next, the messages it took
    to_mcu,            \* frames on the wire to the MCU
    to_host,           \* acks on the wire to the host
    \* ---- the FFI singleton (chelper.py) ----
    FFI_main,          \* chelper.FFI_main: 0 for None, else the cffi.FFI object
    FFI_lib,           \* chelper.FFI_lib: 0 for None, else the loaded library
    fs,                \* klippy's directory: source mtimes and c_helper.so's
    ffi_log            \* what the calls of get_ffi did and returned

evars == <<enable_count, pin_value, pin_time, enable_call, need_motor_enable,
           hstep>>

bvars == <<b_pc, nreq, commands, messages_by_name, encoders, static_strings,
           constants, msg_to_id, msgid, id_cmds, id_enc, encoder_defs,
           static_code, datadict>>

gvars == <<inputfile, heaters, gc, now, nreads>>

svars == <<sc, ss>>

qvars == <<sq, mcu, to_mcu, to_host>>

fvars == <<FFI_main, FFI_lib, fs, ffi_log>>

vars == <<evars, bvars, gvars, svars, qvars, fvars>>

\* what the operations of one subsystem leave alone
EnableFrame == UNCHANGED <<bvars, gvars, svars, qvars, fvars>>

BuildFrame == UNCHANGED <<evars, gvars, svars, qvars, fvars>>

GcodeFrame == UNCHANGED <<evars, bvars, svars, qvars, fvars>>

StepFrame == UNCHANGED <<evars, bvars, gvars, qvars, fvars>>

SerialFrame == UNCHANGED <<evars, bvars, gvars, svars, fvars>>

FfiFrame == UNCHANGED <<evars, bvars, gvars, svars, qvars>>

(***************************************************************************)
(* Generic helpers                                                         *)
(***************************************************************************)
Min(a, b) == IF a <= b THEN a ELSE b

Max(a, b) == IF a >= b THEN a ELSE b

RECURSIVE SumSeq(_)
SumSeq(s) == IF s = <<>> THEN 0 ELSE Head(s) + SumSeq(Tail(s))

Range(s) == {s[i] : i \in DOMAIN s}

(***************************************************************************)
(* StepperEnablePin: tracking of shared stepper enable pins                *)
(***************************************************************************)
MaxCount == 6          \* |enable_count| explored by the model
MaxPrintTime == 3      \* print_time arguments 0..MaxPrintTime

NumSteppers == 3       \* PrinterStepper objects whose enable_pin is the same pin

NoCall == [enable |-> FALSE, before |-> 0, wrote |-> <<>>]

\* StepperEnablePin.__init__ (lookup_enable_pin: one object per pin) and
\* PrinterStepper.__init__
EnableInit ==
    /\ enable_count = 0
    /\ pin_value = "none"
    /\ pin_time = 0
    /\ enable_call = NoCall
    /\ need_motor_enable = [s \in 1..NumSteppers |-> TRUE]

\* the last get_homed_offset call: the position get_mcu_position reported,
\* the value returned (none when it raised)
NoHomed == [pos |-> 0, ret |-> <<>>, raised |-> FALSE]

\* PrinterHomingStepper.__init__, "Endstop stepper phase position tracking",
\* for an mcu that is not in file output mode.  phases is the configured
\* homing_stepper_phases (0 when not configured), accuracy is <<>> when
\* homing_endstop_accuracy is not configured and otherwise holds the step
\* count int(math.ceil(...)) computed from it, phase is <<>> or holds the
\* configured homing_endstop_phase.  None is modelled as 0 (phases) and as
\* the empty sequence.
HomingStepper(phases, accuracy, phase) ==
    IF phases = 0
    THEN [homing_stepper_phases |-> 0, homing_endstop_accuracy |-> <<>>,
          homing_endstop_phase |-> <<>>, call |-> NoHomed]
    ELSE LET acc == IF accuracy = <<>> THEN (phases \div 2) - 1 ELSE accuracy[1]
         IN [homing_stepper_phases |-> IF acc >= phases \div 2 THEN 0 ELSE phases,
             homing_endstop_accuracy |-> <<acc>>,
             homing_endstop_phase |-> phase,
             call |-> NoHomed]

\* a stepper without phase tracking
HomingParked == hstep = HomingStepper(0, <<>>, <<>>)

\* "if not self.enable_count" on entry of the enable branch
EnableWritesHigh(count) == count = 0

\* "if not self.enable_count" after the decrement of the disable branch
DisableWritesLowMutant(count) == count - 1 <= 0
DisableWritesLow(count) == count - 1 = 0

\* StepperEnablePin.set_enable(print_time, enable)
set_enable(print_time, enable) ==
    IF enable
    THEN /\ enable_count < MaxCount
         /\ IF EnableWritesHigh(enable_count)
            THEN /\ pin_value' = 1
                 /\ pin_time' = print_time
                 /\ enable_call' = [enable |-> TRUE, before |-> enable_count,
                                    wrote |-> <<1>>]
            ELSE /\ UNCHANGED <<pin_value, pin_time>>
                 /\ enable_call' = [enable |-> TRUE, before |-> enable_count,
                                    wrote |-> <<>>]
         /\ enable_count' = enable_count + 1
    ELSE /\ enable_count > -MaxCount
         /\ enable_count' = enable_count - 1
         /\ IF DisableWritesLow(enable_count)
            THEN /\ pin_value' = 0
                 /\ pin_time' = print_time
                 /\ enable_call' = [enable |-> FALSE, before |-> enable_count,
                                    wrote |-> <<0>>]
            ELSE /\ UNCHANGED <<pin_value, pin_time>>
                 /\ enable_call' = [enable |-> FALSE, before |-> enable_count,
                                    wrote |-> <<>>]

SetEnableOn ==
    /\ EnableFrame
    /\ \E t \in 0..MaxPrintTime : set_enable(t, TRUE)
    /\ UNCHANGED <<need_motor_enable, hstep>>

SetEnableOff ==
    /\ EnableFrame
    /\ \E t \in 0..MaxPrintTime : set_enable(t, FALSE)
    /\ UNCHANGED <<need_motor_enable, hstep>>

NextEnable == SetEnableOn \/ SetEnableOff

\* motor_enable: "if self.need_motor_enable != (not enable)"
MotorChangesMutant(need, enable) == TRUE
MotorChanges(need, enable) == need # ~enable

\* PrinterStepper.motor_enable(print_time, enable) of stepper s
motor_enable(s, print_time, enable) ==
    /\ IF MotorChanges(need_motor_enable[s], enable)
       THEN set_enable(print_time, enable)
       ELSE UNCHANGED <<enable_count, pin_value, pin_time, enable_call>>
    /\ need_motor_enable' = [need_motor_enable EXCEPT ![s] = ~enable]

\* PrinterStepper.is_motor_enabled of stepper s
is_motor_enabled(s) == ~need_motor_enable[s]

MotorEnable ==
    /\ EnableFrame
    /\ \E s \in 1..NumSteppers, t \in 0..MaxPrintTime, enable \in BOOLEAN :
           motor_enable(s, t, enable)
    /\ UNCHANGED hstep

MaxPhases == 5         \* homing_stepper_phases 0..MaxPhases
MaxAccuracy == 2       \* configured accuracies of 1..MaxAccuracy steps
MaxPos == 4            \* get_mcu_position answers -MaxPos..MaxPos
StepDist == 5          \* get_step_dist(), in units of 1/1000 mm

\* the configurations of the homing stepper
HomingInit ==
    \E phases \in 0..MaxPhases :
        \E accuracy \in {<<>>} \cup {<<a>> : a \in 1..MaxAccuracy} :
            \E phase \in {<<>>} \cup {<<e>> : e \in 0..(phases - 1)} :
                hstep = HomingStepper(phases, accuracy, phase)

\* get_homed_offset: the branch taken on delta
WrapsDownMutant(delta, phases, accuracy) == delta > phases - accuracy
WrapsDown(delta, phases, accuracy) == delta >= phases - accuracy

\* PrinterHomingStepper.get_homed_offset(), with the position the mcu reports
get_homed_offset(h, need, mcu_position) ==
    IF h.homing_stepper_phases = 0 \/ need
    THEN [h EXCEPT !.call = [pos |-> mcu_position, ret |-> <<0>>, raised |-> FALSE]]
    ELSE LET phases == h.homing_stepper_phases
             accuracy == h.homing_endstop_accuracy[1]
             pos == mcu_position % phases
         IN IF h.homing_endstop_phase = <<>>
            THEN [h EXCEPT !.homing_endstop_phase = <<pos>>,
                           !.call = [pos |-> mcu_position, ret |-> <<0>>,
                                     raised |-> FALSE]]
            ELSE LET delta == (pos - h.homing_endstop_phase[1]) % phases
                 IN IF WrapsDown(delta, phases, accuracy)
                    THEN [h EXCEPT !.call = [pos |-> mcu_position,
                                             ret |-> <<(delta - phases) * StepDist>>,
                                             raised |-> FALSE]]
                    ELSE IF delta > accuracy
                    THEN [h EXCEPT !.call = [pos |-> mcu_position, ret |-> <<>>,
                                             raised |-> TRUE]]
                    ELSE [h EXCEPT !.call = [pos |-> mcu_position,
                                             ret |-> <<delta * StepDist>>,
                                             raised |-> FALSE]]

GetHomedOffset ==
    /\ EnableFrame
    /\ \E mcu_position \in -MaxPos..MaxPos :
           hstep' = get_homed_offset(hstep, need_motor_enable[1], mcu_position)
    /\ UNCHANGED <<enable_count, pin_value, pin_time, enable_call, need_motor_enable>>

NextMotor == MotorEnable \/ GetHomedOffset


(***************************************************************************)
(* scripts/buildcommands.py: the build-time requests of the firmware are   *)
(* read one by one (main), message ids are handed out, and the C code and  *)
(* the data dictionary are generated.                                      *)
(*                                                                         *)
(* A message format string is modelled by its first word and the           *)
(* max_length of each of its parameter types, [name, params]; two format   *)
(* strings are equal iff both agree, and a format with no parameter is the *)
(* same string as its name.                                                *)
(***************************************************************************)
MaxReqs == 4           \* requests read from the input file
MaxParamLen == 30      \* the largest max_length of a parameter type

STATIC_STRING_MIN == 2

MESSAGE_MAX == 64

MESSAGE_MIN == 5

Fmt(n, p) == [name |-> n, params |-> p]

ParamLists == {<<>>, <<1>>, <<MaxParamLen, MaxParamLen>>}

\* msgproto.DefaultMessages: identify_response (0) and identify (1)
DefaultMessages ==
    (0 :> Fmt("identify_response", <<1, MaxParamLen>>)) @@ (1 :> Fmt("identify", <<1>>))

CommandNames == {"identify", "a"}

EncoderNames == {"a", "b"}

OutputFormats == {Fmt("a", <<>>), Fmt("o", <<1>>)}

StaticStrs == {"s1", "s2"}

EmptyMap == [x \in {} |-> 0]

BuildInit ==
    /\ b_pc = "parse"
    /\ nreq = 0
    /\ commands = {}
    /\ messages_by_name =
           [n \in {DefaultMessages[i].name : i \in DOMAIN DefaultMessages} |->
               CHOOSE m \in Range(DefaultMessages) : m.name = n]
    /\ encoders = <<>>
    /\ static_strings = <<>>
    /\ constants = EmptyMap
    /\ msg_to_id = EmptyMap
    /\ msgid = 0
    /\ id_cmds = {}
    /\ id_enc = 0
    /\ encoder_defs = <<>>
    /\ static_code = <<>>
    /\ datadict = EmptyMap

\* what the parse loop leaves alone
BuildOutputs == <<msg_to_id, msgid, id_cmds, id_enc, encoder_defs, static_code, datadict>>

\* error(msg): sys.exit(-1); an uncaught exception ends the tool as well
BuildFail ==
    /\ b_pc' = "error"
    /\ UNCHANGED <<commands, messages_by_name, encoders, static_strings, constants>>

\* messages_by_name.get(msgname): None is modelled by "no entry"
Conflicting(msgname, msg) ==
    /\ msgname \in DOMAIN messages_by_name
    /\ messages_by_name[msgname] # msg

\* main: elif cmd == '_DECL_COMMAND'
DeclCommand ==
    /\ BuildFrame
    /\ \E n \in CommandNames, p \in ParamLists :
        /\ b_pc = "parse" /\ nreq < MaxReqs
        /\ nreq' = nreq + 1
        /\ UNCHANGED BuildOutputs
        /\ IF n \in commands \/ Conflicting(n, Fmt(n, p))
           THEN BuildFail
           ELSE /\ commands' = commands \cup {n}
                /\ messages_by_name' =
                       (n :> Fmt(n, p)) @@ messages_by_name
                /\ UNCHANGED <<b_pc, encoders, static_strings, constants>>

\* main: elif cmd == '_DECL_ENCODER'
DeclEncoder ==
    /\ BuildFrame
    /\ \E n \in EncoderNames, p \in ParamLists :
        /\ b_pc = "parse" /\ nreq < MaxReqs
        /\ nreq' = nreq + 1
        /\ UNCHANGED BuildOutputs
        /\ IF Conflicting(n, Fmt(n, p))
           THEN BuildFail
           ELSE /\ messages_by_name' = (n :> Fmt(n, p)) @@ messages_by_name
                /\ encoders' = Append(encoders, [name |-> n, msg |-> Fmt(n, p)])
                /\ UNCHANGED <<b_pc, commands, static_strings, constants>>

\* main: elif cmd == '_DECL_OUTPUT'
DeclOutput ==
    /\ BuildFrame
    /\ \E m \in OutputFormats :
        /\ b_pc = "parse" /\ nreq < MaxReqs
        /\ nreq' = nreq + 1
        /\ encoders' = Append(encoders, [name |-> "None", msg |-> m])
        /\ UNCHANGED <<b_pc, commands, messages_by_name, static_strings, constants>>
        /\ UNCHANGED BuildOutputs

\* HandleStaticStrings.decl_static_str
DeclStaticStr ==
    /\ BuildFrame
    /\ \E s \in StaticStrs :
        /\ b_pc = "parse" /\ nreq < MaxReqs
        /\ nreq' = nreq + 1
        /\ static_strings' = Append(static_strings, s)
        /\ UNCHANGED <<b_pc, commands, messages_by_name, encoders, constants>>
        /\ UNCHANGED BuildOutputs

\* HandleConstants.decl_constant
DeclConstant ==
    /\ BuildFrame
    /\ \E v \in {"1", "2"} :
        /\ b_pc = "parse" /\ nreq < MaxReqs
        /\ nreq' = nreq + 1
        /\ UNCHANGED BuildOutputs
        /\ IF "K" \in DOMAIN constants /\ constants["K"] # v
           THEN BuildFail
           ELSE /\ constants' = ("K" :> v) @@ constants
                /\ UNCHANGED <<b_pc, commands, messages_by_name, encoders, static_strings>>

\* main: else: error("Unknown build time command")
DeclUnknown ==
    /\ BuildFrame
    /\ b_pc = "parse" /\ nreq < MaxReqs
    /\ nreq' = nreq + 1
    /\ BuildFail
    /\ UNCHANGED BuildOutputs

\* main: the request file is read to its end; the id loop starts from the
\* default messages
EndOfRequests ==
    /\ BuildFrame
    /\ b_pc = "parse"
    /\ b_pc' = "ids"
    /\ msgid' = CHOOSE i \in DOMAIN DefaultMessages :
                    \A j \in DOMAIN DefaultMessages : j <= i
    /\ msg_to_id' = [m \in Range(DefaultMessages) |->
                        CHOOSE i \in DOMAIN DefaultMessages : DefaultMessages[i] = m]
    /\ id_cmds' = commands
    /\ id_enc' = 0
    /\ UNCHANGED <<nreq, commands, messages_by_name, encoders, static_strings,
                   constants, encoder_defs, static_code, datadict>>

\* messages_by_name.get(msgname, msgname) for a command name
MsgOfName(n) == messages_by_name[n]

\* messages_by_name.get(m, m) for an encoder's format string m
MsgOfFormat(m) ==
    IF m.params = <<>> /\ m.name \in DOMAIN messages_by_name
    THEN messages_by_name[m.name] ELSE m

\* main: "if msg not in msg_to_id: msgid += 1; msg_to_id[msg] = msgid"
AssignIdMutant(msg) ==
    IF msg \in DOMAIN msg_to_id
    THEN UNCHANGED <<msg_to_id, msgid>>
    ELSE /\ msgid' = msgid
         /\ msg_to_id' = (msg :> msgid) @@ msg_to_id
AssignId(msg) ==
    IF msg \in DOMAIN msg_to_id
    THEN UNCHANGED <<msg_to_id, msgid>>
    ELSE /\ msgid' = msgid + 1
         /\ msg_to_id' = (msg :> (msgid + 1)) @@ msg_to_id

\* main: the id loop over commands.keys() (a dict: any order)
IdCommand ==
    /\ BuildFrame
    /\ \E n \in id_cmds :
        /\ b_pc = "ids"
        /\ AssignId(MsgOfName(n))
        /\ id_cmds' = id_cmds \ {n}
        /\ UNCHANGED <<b_pc, nreq, commands, messages_by_name, encoders,
                       static_strings, constants, id_enc, encoder_defs,
                       static_code, datadict>>

\* main: the id loop over [m for n, m in encoders], after the commands
IdEncoder ==
    /\ BuildFrame
    /\ b_pc = "ids" /\ id_cmds = {} /\ id_enc < Len(encoders)
    /\ AssignId(MsgOfFormat(encoders[id_enc + 1].msg))
    /\ id_enc' = id_enc + 1
    /\ UNCHANGED <<b_pc, nreq, commands, messages_by_name, encoders,
                   static_strings, constants, id_cmds, encoder_defs,
                   static_code, datadict>>

IdsDone ==
    /\ BuildFrame
    /\ b_pc = "ids" /\ id_cmds = {} /\ id_enc = Len(encoders)
    /\ b_pc' = "generate"
    /\ UNCHANGED <<nreq, commands, messages_by_name, encoders, static_strings,
                   constants, msg_to_id, msgid, id_cmds, id_enc, encoder_defs,
                   static_code, datadict>>

\* build_parser, iscmd false: the .max_size of a command_encoder
BuildParserMaxSizeMutant(params) == MESSAGE_MIN + 1 + SumSeq(params)
BuildParserMaxSize(params) ==
    Min(MESSAGE_MAX, MESSAGE_MIN + 1 + SumSeq(params))

\* build_encoders: one command_encoder per message id, in declaration order
RECURSIVE BuildEncoders(_, _, _)
BuildEncoders(encs, did_output, defs) ==
    IF encs = <<>> THEN defs
    ELSE LET e == Head(encs)
             id == msg_to_id[e.msg]
         IN IF id \in did_output
            THEN BuildEncoders(Tail(encs), did_output, defs)
            ELSE BuildEncoders(Tail(encs), did_output \cup {id},
                     Append(defs, [msg_id |-> id,
                                   comment |-> e.msg,
                                   output |-> (e.name = "None"),
                                   num_params |-> Len(e.msg.params),
                                   max_size |-> BuildParserMaxSize(e.msg.params)]))

\* build_encoders: msg_to_id[msg] raises KeyError for a format without an id
EncoderKeyError == \E i \in DOMAIN encoders : encoders[i].msg \notin DOMAIN msg_to_id

\* main: cmd_by_id, its keys
CmdIds == {msg_to_id[MsgOfName(n)] : n \in commands}

\* main: the names whose message ids are listed as responses
ResponseNamesMutant == DOMAIN messages_by_name
ResponseNames == {n \in DOMAIN messages_by_name : n \notin commands}

\* sorted([msg_to_id[messages_by_name[n]] for n in names])
RECURSIVE SortedIds(_)
SortedIds(names) ==
    IF names = {} THEN <<>>
    ELSE LET n == CHOOSE x \in names :
                     \A y \in names :
                         msg_to_id[messages_by_name[x]] <= msg_to_id[messages_by_name[y]]
         IN <<msg_to_id[messages_by_name[n]]>> \o SortedIds(names \ {n})

\* sorted(cmd_by_id.keys())
RECURSIVE SortedSet(_)
SortedSet(S) ==
    IF S = {} THEN <<>>
    ELSE LET m == CHOOSE x \in S : \A y \in S : x <= y
         IN <<m>> \o SortedSet(S \ {m})

\* json.dumps writes the integer keys of a dict as decimal strings
JsonKey(i) == ToString(i)

\* json.dumps of a dict with integer keys
JsonObject(d) ==
    [k \in {JsonKey(i) : i \in DOMAIN d} |-> d[CHOOSE i \in DOMAIN d : JsonKey(i) = k]]

\* HandleStaticStrings.update_data_dictionary: i + STATIC_STRING_MIN
DictStaticId(i) == i + STATIC_STRING_MIN

\* HandleStaticStrings.generate_code: i + STATIC_STRING_MIN
CodeStaticIdMutant(i) == i + 1
CodeStaticId(i) == i + STATIC_STRING_MIN

\* HandleStaticStrings.update_data_dictionary (enumerate counts from 0)
UpdateStaticStrings(data) ==
    ("static_strings" :>
        JsonObject([id \in {DictStaticId(i - 1) : i \in DOMAIN static_strings} |->
            static_strings[CHOOSE i \in DOMAIN static_strings : DictStaticId(i - 1) = id]]))
    @@ data

\* HandleConstants.update_data_dictionary
UpdateConstants(data) == ("config" :> constants) @@ data

\* HandleStaticStrings.generate_code: one "if (strcmp(str, s) == 0) return id;"
\* per declaration, in declaration order
GenerateStaticCode ==
    [i \in DOMAIN static_strings |->
        [str |-> static_strings[i], ret |-> CodeStaticId(i - 1)]]

\* the generated ctr_lookup_static_string: the first clause that matches
\* returns, as a uint8_t; 0xff when none does
ctr_lookup_static_string(code, str) ==
    IF \E i \in DOMAIN code : code[i].str = str
    THEN LET i == CHOOSE k \in DOMAIN code :
                      /\ code[k].str = str
                      /\ \A j \in DOMAIN code : code[j].str = str => k <= j
         IN code[i].ret % 256
    ELSE 255

\* build_identify: the dictionary before json.dumps and zlib.compress
BuildIdentify ==
    ("messages" :> JsonObject([id \in {msg_to_id[m] : m \in DOMAIN msg_to_id} |->
                       CHOOSE m \in DOMAIN msg_to_id : msg_to_id[m] = id]))
    @@ ("commands" :> SortedSet(CmdIds))
    @@ ("responses" :> SortedIds(ResponseNames))
    @@ ("version" :> "version")
    @@ ("build_versions" :> "toolstr")
    @@ UpdateConstants(UpdateStaticStrings(EmptyMap))

\* main, after the id loop: build_encoders, build_commands (max() of no
\* command raises), build_identify, and the output files are written
Generate ==
    /\ BuildFrame
    /\ b_pc = "generate"
    /\ IF EncoderKeyError \/ commands = {}
       THEN /\ b_pc' = "error"
            /\ UNCHANGED <<encoder_defs, static_code, datadict>>
       ELSE /\ b_pc' = "done"
            /\ encoder_defs' = BuildEncoders(encoders, {}, <<>>)
            /\ static_code' = GenerateStaticCode
            /\ datadict' = BuildIdentify
    /\ UNCHANGED <<nreq, commands, messages_by_name, encoders, static_strings,
                   constants, msg_to_id, msgid, id_cmds, id_enc>>

NextBuild ==
    \/ DeclCommand \/ DeclEncoder \/ DeclOutput \/ DeclStaticStr
    \/ DeclConstant \/ DeclUnknown \/ EndOfRequests
    \/ IdCommand \/ IdEncoder \/ IdsDone \/ Generate

(***************************************************************************)
(* klippy/gcode.py: GCodeParser.  A reactor callback (process_data,        *)
(* busy_handler) runs to completion, so each is one action.  Input is a    *)
(* sequence of characters; a line is the sequence between two newlines.    *)
(* Times are in milliseconds.                                              *)
(***************************************************************************)
MaxReads == 2          \* chunks of input read from the fd
MaxTime == 1150        \* the reactor clock stops advancing here

RETRY_TIME == 100

StartTime == 1000      \* the reactor's monotonic clock at the first event

Ticks == {50, 100}

Letters == {"G", "M", "N", "X", "Y", "Z", "E", "F", "S", "P"}

Digits == <<"0", "1", "2", "3", "4", "5", "6", "7", "8", "9">>

IsLetter(c) == c \in Letters \cup {"*"}

IsDigit(c) == \E d \in DOMAIN Digits : Digits[d] = c

DigitVal(c) == (CHOOSE d \in DOMAIN Digits : Digits[d] = c) - 1

\* str.strip(): leading and trailing blanks removed
RECURSIVE LStrip(_)
LStrip(s) == IF s # <<>> /\ Head(s) = " " THEN LStrip(Tail(s)) ELSE s

RECURSIVE RStrip(_)
RStrip(s) ==
    IF s # <<>> /\ s[Len(s)] = " " THEN RStrip(SubSeq(s, 1, Len(s) - 1)) ELSE s

Strip(s) == RStrip(LStrip(s))

\* line[:line.find(';')] when the line holds a ';'
RECURSIVE CutComment(_)
CutComment(s) ==
    IF s = <<>> \/ Head(s) = ";" THEN <<>> ELSE <<Head(s)>> \o CutComment(Tail(s))

\* data.split('\n'): the lines of a chunk; the last one is unterminated
RECURSIVE SplitLines(_, _)
SplitLines(data, cur) ==
    IF data = <<>> THEN <<cur>>
    ELSE IF Head(data) = "\n" THEN <<cur>> \o SplitLines(Tail(data), <<>>)
    ELSE SplitLines(Tail(data), Append(cur, Head(data)))

\* the text up to the next letter
RECURSIVE UpToLetter(_)
UpToLetter(s) ==
    IF s = <<>> \/ IsLetter(Head(s)) THEN <<>> ELSE <<Head(s)>> \o UpToLetter(Tail(s))

\* args_r.split(line)[1:], as (letter, text) pairs: the text before the
\* first letter is dropped
RECURSIVE SplitArgs(_)
SplitArgs(s) ==
    IF s = <<>> THEN <<>>
    ELSE IF IsLetter(Head(s))
         THEN LET t == UpToLetter(Tail(s))
              IN <<[l |-> Head(s), t |-> Strip(t)]>>
                 \o SplitArgs(SubSeq(s, Len(t) + 2, Len(s)))
         ELSE SplitArgs(Tail(s))

\* params = dict((parts[i].upper(), parts[i+1].strip()) ...): the last
\* occurrence of a letter wins
HasParam(parts, a) == \E i \in DOMAIN parts : parts[i].l = a

Param(parts, a) ==
    parts[CHOOSE i \in DOMAIN parts :
              parts[i].l = a /\ \A j \in DOMAIN parts : parts[j].l = a => j <= i].t

\* "if parts and parts[0].upper() == 'N': del parts[:2]"
SkipLineNumber(parts) ==
    IF parts # <<>> /\ parts[1].l = "N" THEN Tail(parts) ELSE parts

\* float(text) succeeds: digits, with an optional sign
IsNumber(t) ==
    LET d == IF t # <<>> /\ Head(t) = "-" THEN Tail(t) ELSE t
    IN d # <<>> /\ \A i \in DOMAIN d : IsDigit(d[i])

RECURSIVE DigitsVal(_, _)
DigitsVal(d, acc) ==
    IF d = <<>> THEN acc ELSE DigitsVal(Tail(d), 10 * acc + DigitVal(Head(d)))

\* float(text)
Float(t) ==
    IF Head(t) = "-" THEN 0 - DigitsVal(Tail(t), 0) ELSE DigitsVal(t, 0)

\* the parse of one input line, as process_commands does it
ParseLine(line) ==
    LET parts == SplitArgs(CutComment(Strip(line)))
        rest == SkipLineNumber(parts)
    IN [params |-> parts,
        cmd |-> IF rest = <<>> THEN <<>> ELSE <<rest[1].l>> \o rest[1].t]

Axes == 0..3

AxisOrder == <<"X", "Y", "Z", "E">>      \* axis2pos, in the order it is walked

Cmd(l, t) == <<l>> \o t

\* build_handlers: the handler names; a heater or fan adds its commands
AllHandlers ==
    {Cmd("G", <<"0">>), Cmd("G", <<"1">>), Cmd("G", <<"4">>), Cmd("G", <<"2", "0">>),
     Cmd("G", <<"2", "1">>), Cmd("G", <<"2", "8">>), Cmd("G", <<"9", "0">>),
     Cmd("G", <<"9", "1">>), Cmd("G", <<"9", "2">>), Cmd("M", <<"1", "8">>),
     Cmd("M", <<"8", "2">>), Cmd("M", <<"8", "3">>), Cmd("M", <<"8", "4">>),
     Cmd("M", <<"1", "1", "0">>), Cmd("M", <<"1", "1", "4">>),
     Cmd("M", <<"1", "1", "9">>), Cmd("M", <<"2", "0", "6">>)}

NozzleHandlers ==
    {Cmd("M", <<"1", "0", "4">>), Cmd("M", <<"1", "0", "5">>),
     Cmd("M", <<"1", "0", "9">>), Cmd("M", <<"3", "0", "3">>)}

BedHandlers == {Cmd("M", <<"1", "4", "0">>), Cmd("M", <<"1", "9", "0">>)}

FanHandlers == {Cmd("M", <<"1", "0", "6">>), Cmd("M", <<"1", "0", "7">>)}

ShutdownHandlersMutant == AllHandlers
ShutdownHandlers ==
    {Cmd("M", <<"1", "0", "5">>), Cmd("M", <<"1", "1", "0">>), Cmd("M", <<"1", "1", "4">>)}

\* GCodeParser.build_handlers
build_handlers(present, is_shutdown) ==
    LET handlers == AllHandlers
                    \cup (IF "heater_nozzle" \in present THEN NozzleHandlers ELSE {})
                    \cup (IF "heater_bed" \in present THEN BedHandlers ELSE {})
                    \cup (IF "fan" \in present THEN FanHandlers ELSE {})
    IN IF is_shutdown THEN handlers \cap ShutdownHandlers ELSE handlers

Zeros == [a \in Axes |-> 0]

\* a timer's wake time: reactor.NEVER, reactor.NOW or a time
Timer(kind, at) == [kind |-> kind, at |-> at]

NEVER == Timer("NEVER", 0)

NOW == Timer("NOW", 0)

\* the per-callback log: what the callback wrote to the fd, what it passed to
\* logging.debug via respond, the handlers it invoked (with busy_state at the
\* call, what toolhead.move did if it was called, and whether the handler
\* raised), the busy_state it found when it read input, and the result of the
\* busy poll; the bytes it read, the lines its process_commands loop took, and
\* for each ok it wrote the number of handlers invoked before it and the
\* busy_state at that moment; and how often it called reactor.register_fd
NoLog == [out |-> <<>>, debug |-> <<>>, calls |-> <<>>, reads |-> <<>>,
          poll |-> "none", eventtime |-> 0,
          data |-> <<>>, lines |-> <<>>, acks |-> <<>>, registers |-> 0]

\* the fields GCodeParser.__init__ and build_config set
NewParser ==
    [fd_registered |-> TRUE,
     input_commands |-> << <<>> >>,
     need_register_fd |-> FALSE,
     busy_state |-> "None",
     busy_timer |-> NEVER,
     gcode_handlers |-> build_handlers(heaters, FALSE),
     is_shutdown |-> FALSE,
     need_ack |-> FALSE,
     speed |-> 60,
     absolutecoord |-> TRUE,
     absoluteextrude |-> TRUE,
     base_position |-> Zeros,
     last_position |-> Zeros,
     homing_add |-> Zeros,
     homing_axes |-> {},
     last_temp_time |-> 0,
     running |-> TRUE,
     toolhead |-> [position |-> Zeros, shutdown |-> FALSE,
                   target |-> [h \in {"heater_nozzle", "heater_bed"} |-> 0],
                   fan |-> 0],
     log |-> NoLog]

\* GCodeParser.__init__, build_config and run
GcodeInit ==
    /\ inputfile \in BOOLEAN
    /\ heaters \in {{}, {"heater_nozzle"}}
    /\ now = StartTime
    /\ nreads = 0
    /\ gc = NewParser

\* GCodeParser.respond
respond(st, msg) ==
    LET st1 == [st EXCEPT !.log.debug = Append(@, msg)]
    IN IF inputfile THEN st1 ELSE [st1 EXCEPT !.log.out = Append(@, msg)]

\* GCodeParser.ack: msg is "" for a plain ok
AckWrites(st) == ~(~st.need_ack \/ inputfile)

ackMutant(st, msg) ==
    IF ~AckWrites(st) THEN st
    ELSE [st EXCEPT !.log.out = Append(@, IF msg # "" THEN "ok " \o msg ELSE "ok"),
                    !.log.acks = Append(@, [ncalls |-> Len(st.log.calls),
                                            busy |-> st.busy_state])]
ack(st, msg) ==
    IF ~AckWrites(st) THEN st
    ELSE [st EXCEPT !.log.out = Append(@, IF msg # "" THEN "ok " \o msg ELSE "ok"),
                    !.log.acks = Append(@, [ncalls |-> Len(st.log.calls),
                                            busy |-> st.busy_state]),
                    !.need_ack = FALSE]

\* GCodeParser.set_busy
set_busy(st, busy_handler) ==
    [st EXCEPT !.busy_state = busy_handler, !.busy_timer = NOW]

\* GCodeParser.get_temp
get_temp ==
    IF "heater_nozzle" \in heaters
    THEN (IF "heater_bed" \in heaters THEN "T: B:" ELSE "T:")
    ELSE (IF "heater_bed" \in heaters THEN "B:" ELSE "")

\* GCodeParser.bg_temp
bg_tempMutant(st) == set_busy([st EXCEPT !.last_temp_time = 0], "temp")
bg_temp(st) ==
    IF inputfile THEN st
    ELSE set_busy([st EXCEPT !.last_temp_time = 0], "temp")

Done(st) == [st |-> st, raised |-> FALSE]

Raise(st) == [st |-> st, raised |-> TRUE]

\* GCodeParser.set_temp; env is what toolhead and heater answer
set_temp(st, heater, parts, wait, env) ==
    IF env # "ok" THEN Raise(st)
    ELSE IF HasParam(parts, "S") /\ ~IsNumber(Param(parts, "S")) THEN Raise(st)
    ELSE IF heater \notin heaters THEN Raise(st)
    ELSE LET temp == IF HasParam(parts, "S") THEN Float(Param(parts, "S")) ELSE 0
             st1 == [st EXCEPT !.toolhead.target[heater] = temp]
         IN Done(IF wait THEN bg_temp(st1) ELSE st1)

\* GCodeParser.cmd_default
cmd_default(st, pl) ==
    IF st.is_shutdown THEN respond(st, "Error: Machine is shutdown")
    ELSE IF pl.cmd = <<>> THEN st
    ELSE respond(st, "echo:Unknown command")

\* cmd_G1: "if not self.absolutecoord or (p>2 and not self.absoluteextrude)"
RelativeMoveMutant(st, p) == p > 2 /\ ~st.absoluteextrude
RelativeMove(st, p) == ~st.absolutecoord \/ (p > 2 /\ ~st.absoluteextrude)

\* cmd_G1: the loop over axis2pos.items(); float() of a malformed value raises
\* and leaves the axes already walked updated
RECURSIVE G1Axes(_, _, _)
G1Axes(st, parts, p) ==
    IF p > 3 THEN Done(st)
    ELSE LET a == AxisOrder[p + 1]
         IN IF ~HasParam(parts, a) THEN G1Axes(st, parts, p + 1)
            ELSE IF ~IsNumber(Param(parts, a)) THEN Raise(st)
            ELSE LET v == Float(Param(parts, a))
                     st1 == IF RelativeMove(st, p)
                            THEN [st EXCEPT !.last_position[p] = @ + v]
                            ELSE [st EXCEPT !.last_position[p] = v + st.base_position[p]]
                 IN G1Axes(st1, parts, p + 1)

\* cmd_G1: "except homing.EndstopError": the position the toolhead reports
EndstopResyncMutant(st) == st.last_position
EndstopResync(st) == st.toolhead.position

\* GCodeParser.cmd_G1 (and cmd_G0); env is what toolhead.move does
cmd_G1(st, parts, env) ==
    LET r == G1Axes(st, parts, 0)
    IN IF r.raised THEN r
       ELSE IF HasParam(parts, "F") /\ ~IsNumber(Param(parts, "F")) THEN Raise(r.st)
       ELSE LET st1 == IF HasParam(parts, "F")
                       THEN [r.st EXCEPT !.speed = Float(Param(parts, "F"))]
                       ELSE r.st
                st1m == [st1 EXCEPT !.log.calls[Len(st1.log.calls)].move = env]
            IN CASE env = "ok" ->
                      Done([st1m EXCEPT !.toolhead.position = st1.last_position])
                 [] env = "endstop" ->
                      LET st2 == respond(st1m, "Error: endstop")
                      IN Done([st2 EXCEPT !.last_position = EndstopResync(st2)])
                 [] OTHER -> Raise(st1m)

\* GCodeParser.cmd_G4
cmd_G4(st, parts, env) ==
    IF HasParam(parts, "S") /\ ~IsNumber(Param(parts, "S")) THEN Raise(st)
    ELSE IF ~HasParam(parts, "S") /\ HasParam(parts, "P") /\ ~IsNumber(Param(parts, "P"))
    THEN Raise(st)
    ELSE IF env # "ok" THEN Raise(st) ELSE Done(st)

\* GCodeParser.cmd_G28
cmd_G28(st, parts, env) ==
    LET given == {p \in 0..2 : HasParam(parts, AxisOrder[p + 1])}
        axes == IF given = {} THEN 0..2 ELSE given
    IN IF env # "ok" THEN Raise(st)
       ELSE Done(set_busy([st EXCEPT !.homing_axes = axes], "homing"))

\* cmd_G28: axes_update, which the homing state calls when homing is complete
axes_update(st) ==
    [st EXCEPT !.last_position = [a \in Axes |->
                     IF a \in st.homing_axes THEN st.toolhead.position[a] ELSE @[a]],
               !.base_position = [a \in Axes |->
                     IF a \in st.homing_axes THEN 0 - st.homing_add[a] ELSE @[a]]]

\* GCodeParser.cmd_G92
RECURSIVE G92Axes(_, _, _)
G92Axes(st, parts, p) ==
    IF p > 3 THEN Done(st)
    ELSE LET a == AxisOrder[p + 1]
         IN IF ~HasParam(parts, a) THEN G92Axes(st, parts, p + 1)
            ELSE IF ~IsNumber(Param(parts, a)) THEN Raise(st)
            ELSE G92Axes([st EXCEPT !.base_position[p] =
                              st.last_position[p] - Float(Param(parts, a))],
                         parts, p + 1)

cmd_G92Mutant(st, parts) == G92Axes(st, parts, 0)
cmd_G92(st, parts) ==
    IF \E p \in Axes : HasParam(parts, AxisOrder[p + 1])
    THEN G92Axes(st, parts, 0)
    ELSE Done([st EXCEPT !.base_position = st.last_position])

\* GCodeParser.cmd_M206
RECURSIVE M206Axes(_, _, _)
M206Axes(st, parts, p) ==
    IF p > 3 THEN Done(st)
    ELSE LET a == AxisOrder[p + 1]
         IN IF ~HasParam(parts, a) THEN M206Axes(st, parts, p + 1)
            ELSE IF ~IsNumber(Param(parts, a)) THEN Raise(st)
            ELSE LET v == Float(Param(parts, a))
                 IN M206Axes([st EXCEPT !.base_position[p] = @ + st.homing_add[p] - v,
                                        !.homing_add[p] = v],
                             parts, p + 1)

\* GCodeParser.cmd_M119
cmd_M119(st, env) ==
    IF inputfile THEN Done(st)
    ELSE IF env # "ok" THEN Raise(st)
    ELSE Done(set_busy(st, "query"))

\* GCodeParser.cmd_M106 and cmd_M107
cmd_M106(st, parts, env, off) ==
    IF env # "ok" THEN Raise(st)
    ELSE IF ~off /\ HasParam(parts, "S") /\ ~IsNumber(Param(parts, "S")) THEN Raise(st)
    ELSE Done([st EXCEPT !.toolhead.fan =
                  IF off THEN 0
                  ELSE IF HasParam(parts, "S") THEN Float(Param(parts, "S")) ELSE 255])

\* GCodeParser.cmd_M303
cmd_M303(st, parts, env) ==
    IF HasParam(parts, "E") /\ ~IsNumber(Param(parts, "E")) THEN Raise(st)
    ELSE LET e == IF HasParam(parts, "E") THEN Float(Param(parts, "E")) ELSE 0
         IN IF e \notin {0, -1} THEN Raise(st)
            ELSE IF HasParam(parts, "S") /\ ~IsNumber(Param(parts, "S")) THEN Raise(st)
            ELSE IF (IF e = 0 THEN "heater_nozzle" ELSE "heater_bed") \notin heaters
                 THEN Raise(st)
            ELSE IF env # "ok" THEN Raise(st)
            ELSE Done(bg_temp(st))

\* process_commands: "handler = self.gcode_handlers.get(cmd, self.cmd_default)"
\* and the call handler(params)
Handler(st, pl, env) ==
    LET c == pl.cmd
        parts == pl.params
    IN IF c \notin st.gcode_handlers THEN Done(cmd_default(st, pl))
       ELSE CASE c \in {Cmd("G", <<"0">>), Cmd("G", <<"1">>)} -> cmd_G1(st, parts, env)
              [] c = Cmd("G", <<"4">>) -> cmd_G4(st, parts, env)
              [] c = Cmd("G", <<"2", "0">>) ->
                     Done(respond(st, "Error: Machine does not support G20 (inches) command"))
              [] c = Cmd("G", <<"2", "8">>) -> cmd_G28(st, parts, env)
              [] c = Cmd("G", <<"9", "0">>) -> Done([st EXCEPT !.absolutecoord = TRUE])
              [] c = Cmd("G", <<"9", "1">>) -> Done([st EXCEPT !.absolutecoord = FALSE])
              [] c = Cmd("G", <<"9", "2">>) -> cmd_G92(st, parts)
              [] c = Cmd("M", <<"8", "2">>) -> Done([st EXCEPT !.absoluteextrude = TRUE])
              [] c = Cmd("M", <<"8", "3">>) -> Done([st EXCEPT !.absoluteextrude = FALSE])
              [] c \in {Cmd("M", <<"1", "8">>), Cmd("M", <<"8", "4">>)} ->
                     IF env # "ok" THEN Raise(st) ELSE Done(st)
              [] c = Cmd("M", <<"1", "0", "5">>) -> Done(ack(st, get_temp))
              [] c = Cmd("M", <<"1", "0", "4">>) ->
                     set_temp(st, "heater_nozzle", parts, FALSE, env)
              [] c = Cmd("M", <<"1", "0", "9">>) ->
                     set_temp(st, "heater_nozzle", parts, TRUE, env)
              [] c = Cmd("M", <<"1", "4", "0">>) ->
                     set_temp(st, "heater_bed", parts, FALSE, env)
              [] c = Cmd("M", <<"1", "9", "0">>) ->
                     set_temp(st, "heater_bed", parts, TRUE, env)
              [] c = Cmd("M", <<"1", "1", "4">>) ->
                     IF env # "ok" THEN Raise(st) ELSE Done(respond(st, "X: Y: Z: E: Count"))
              [] c = Cmd("M", <<"1", "1", "9">>) -> cmd_M119(st, env)
              [] c = Cmd("M", <<"1", "0", "6">>) -> cmd_M106(st, parts, env, FALSE)
              [] c = Cmd("M", <<"1", "0", "7">>) -> cmd_M106(st, parts, env, TRUE)
              [] c = Cmd("M", <<"2", "0", "6">>) -> M206Axes(st, parts, 0)
              [] c = Cmd("M", <<"3", "0", "3">>) -> cmd_M303(st, parts, env)
              [] OTHER -> Done(st)

\* what the toolhead, the heaters and the fan do with the calls of one
\* handler: they succeed, raise homing.EndstopError or raise something else.
\* A handler that calls none of them has one outcome.
EnvCommands ==
    {Cmd("G", <<"0">>), Cmd("G", <<"1">>), Cmd("G", <<"4">>), Cmd("G", <<"2", "8">>),
     Cmd("M", <<"1", "8">>), Cmd("M", <<"8", "4">>), Cmd("M", <<"1", "1", "4">>),
     Cmd("M", <<"1", "1", "9">>), Cmd("M", <<"3", "0", "3">>)}
    \cup ((NozzleHandlers \cup BedHandlers \cup FanHandlers) \ {Cmd("M", <<"1", "0", "5">>)})

EnvOutcomes(st, cmd) ==
    IF cmd \in st.gcode_handlers /\ cmd \in EnvCommands
    THEN {"ok", "endstop", "error"} ELSE {"ok"}

\* the chunks os.read returns; the empty chunk is the end of the input
DataChunks ==
    {<<"G", "1", "X", "1", "\n">>,
     <<"G", "2", "8", "\n", "G", "1", "X", "2", "\n">>,
     <<"G", "1", "X", "1", "\n", "M", "1", "0", "5", "\n">>,
     <<"G", "9", "1", "\n", "G", "1">>,
     <<"X", "\n">>,
     <<>>}

\* toolhead.force_shutdown()
force_shutdownMutant(st) == st
force_shutdown(st) == [st EXCEPT !.toolhead.shutdown = TRUE]

\* "del self.input_commands[:i+1]" with the loop at line i (counted from 1)
DelCommandsMutant(cmds, i) == SubSeq(cmds, IF i > 0 THEN i ELSE 1, Len(cmds))
DelCommands(cmds, i) == SubSeq(cmds, i + 1, Len(cmds))

\* process_commands: the loop body from line i on, and the final
\* "del self.input_commands[:i+1]"; n is len(input_commands) - 1.  The
\* result is the set of states the callback can end in, one for each way the
\* toolhead answers: the handler's calls, then toolhead.check_busy(eventtime).
RECURSIVE ProcessLines(_, _, _)
RECURSIVE AfterHandler(_, _, _)
ProcessLines(st, i, n) ==
    IF i > n
    THEN {[st EXCEPT !.input_commands = DelCommands(@, n)]}
    ELSE LET pl == ParseLine(st.input_commands[i])
             st0 == [st EXCEPT !.log.lines = Append(@, st.input_commands[i])]
         IN IF pl.cmd = <<>>
            THEN ProcessLines(cmd_default(st0, pl), i + 1, n)
            ELSE LET st1 == [st0 EXCEPT !.need_ack = TRUE,
                                       !.log.calls = Append(@,
                                           [cmd |-> pl.cmd, busy |-> st.busy_state,
                                            move |-> "none", raised |-> FALSE])]
                 IN UNION {AfterHandler(Handler(st1, pl, env), i, n) :
                               env \in EnvOutcomes(st1, pl.cmd)}

AfterHandler(r, i, n) ==
    LET st2 == IF r.raised
               THEN respond(force_shutdown(
                                [r.st EXCEPT !.log.calls[Len(r.st.log.calls)].raised = TRUE]),
                            "Error: Internal error on command")
               ELSE r.st
    IN IF st2.busy_state # "None"
       THEN {[st2 EXCEPT !.input_commands = DelCommands(@, i)]}
       ELSE {[set_busy(st2, "toolhead") EXCEPT
                  !.input_commands = DelCommands(@, i)]}
            \cup ProcessLines(ack(st2, ""), i + 1, n)

\* GCodeParser.process_commands
process_commands(st) == ProcessLines(st, 1, Len(st.input_commands) - 1)

\* process_data: "if self.busy_state is not None" (input is stalled)
InputStalledMutant(st) == FALSE
InputStalled(st) == st.busy_state # "None"

\* GCodeParser.finish
finish(st) == [st EXCEPT !.running = FALSE]

\* GCodeParser.process_data(eventtime), with the chunk os.read returns
process_data(st, data) ==
    IF InputStalled(st)
    THEN {[st EXCEPT !.fd_registered = FALSE, !.need_register_fd = TRUE]}
    ELSE LET lines == SplitLines(data, <<>>)
             st1 == [st EXCEPT
                        !.log.reads = Append(@, st.busy_state),
                        !.log.data = data,
                        !.input_commands =
                            <<st.input_commands[1] \o lines[1]>> \o Tail(lines)]
         IN {IF data = <<>> /\ inputfile THEN finish(st2) ELSE st2 :
                 st2 \in process_commands(st1)}

\* the reactor finds the fd readable and calls process_data
ProcessData ==
    /\ GcodeFrame
    /\ gc.running /\ gc.fd_registered
    /\ nreads < MaxReads
    /\ \E data \in DataChunks :
           /\ gc' \in process_data([gc EXCEPT !.log = [NoLog EXCEPT !.eventtime = now]],
                                    data)
           /\ nreads' = IF gc'.log.reads = <<>> THEN nreads ELSE nreads + 1
    /\ UNCHANGED <<inputfile, heaters, now>>

\* busy_state.check_busy(eventtime): res is what the busy object answers;
\* the temperature wrapper of bg_temp reports the temperature once a second,
\* the homing state runs axes_update and the endstop query responds when done
check_busy(st, res, eventtime) ==
    LET st1 == IF st.busy_state = "temp" /\ eventtime > st.last_temp_time + 1000
               THEN [respond(st, get_temp) EXCEPT !.last_temp_time = eventtime]
               ELSE st
    IN CASE res = "idle" /\ st.busy_state = "homing" -> axes_update(st1)
         [] res = "idle" /\ st.busy_state = "query" -> respond(st1, "endstops")
         [] OTHER -> st1

\* busy_handler: the value it returns when the poll says busy
BusyRetryMutant(eventtime) == NEVER
BusyRetry(eventtime) == Timer("AT", eventtime + RETRY_TIME)

\* busy_handler: what follows the poll once busy_state is cleared
BusyResumeMutant(st3) ==
    IF st3.busy_state # "None"
    THEN [st3 EXCEPT !.busy_timer = NOW]
    ELSE [st3 EXCEPT !.busy_timer = NEVER]
BusyResume(st3) ==
    IF st3.busy_state # "None"
    THEN [st3 EXCEPT !.busy_timer = NOW]
    ELSE IF st3.need_register_fd
    THEN [st3 EXCEPT !.need_register_fd = FALSE, !.fd_registered = TRUE,
                     !.busy_timer = NEVER, !.log.registers = @ + 1]
    ELSE [st3 EXCEPT !.busy_timer = NEVER]

\* busy_handler: the two except clauses around check_busy
BusyExceptMutant(st1, res) ==
    CASE res = "endstop" -> respond(force_shutdown(st1), "Error: endstop")
      [] res = "error" ->
             respond(force_shutdown(st1), "Error: Internal error in busy handler")
      [] OTHER -> st1
BusyExcept(st1, res) ==
    CASE res = "endstop" -> respond(st1, "Error: endstop")
      [] res = "error" ->
             respond(force_shutdown(st1), "Error: Internal error in busy handler")
      [] OTHER -> st1

\* GCodeParser.busy_handler(eventtime)
busy_handler(st, res0, eventtime) ==
    LET res == IF st.busy_state = "None" THEN "error" ELSE res0
        st1 == [check_busy(st, res, eventtime) EXCEPT !.log.poll = res]
        st2 == BusyExcept(st1, res)
    IN IF res = "busy"
       THEN {[st2 EXCEPT !.busy_timer = BusyRetry(eventtime)]}
       ELSE {BusyResume(st3) :
                 st3 \in process_commands(ack([st2 EXCEPT !.busy_state = "None"], ""))}

TimerDue(t) == t.kind = "NOW" \/ (t.kind = "AT" /\ t.at <= now)

\* the reactor finds busy_timer due and calls busy_handler
BusyHandler ==
    /\ GcodeFrame
    /\ gc.running /\ TimerDue(gc.busy_timer)
    /\ \E res \in {"busy", "idle", "endstop", "error"} :
           gc' \in busy_handler([gc EXCEPT !.log = [NoLog EXCEPT !.eventtime = now]],
                                res, now)
    /\ UNCHANGED <<inputfile, heaters, now, nreads>>

\* time passes in the reactor
Tick ==
    /\ GcodeFrame
    /\ gc.running
    /\ \E d \in Ticks : now + d <= MaxTime /\ now' = now + d
    /\ UNCHANGED <<inputfile, heaters, gc, nreads>>

\* GCodeParser.shutdown, called by the printer when an mcu shuts down
Shutdown ==
    /\ GcodeFrame
    /\ ~gc.is_shutdown
    /\ gc' = [gc EXCEPT !.is_shutdown = TRUE,
                        !.gcode_handlers = build_handlers(heaters, TRUE)]
    /\ UNCHANGED <<inputfile, heaters, now, nreads>>

NextGcode == ProcessData \/ BusyHandler \/ Tick \/ Shutdown

\* ---- single commands on a parser that has been in use ----
MaxCmds == 1           \* command lines read from the fd
MaxCoord == 1          \* coordinates 0..MaxCoord of the positions reached before

\* one command line per read
CmdChunks ==
    {<<"G", "1", "X", "2", "\n">>,
     <<"G", "0", "Y", "1", "Z", "-", "1", "\n">>,
     <<"G", "1", "E", "1", "\n">>,
     <<"G", "1", "X", "\n">>,
     <<"G", "2", "8", "\n">>,
     <<"G", "9", "0", "\n">>,
     <<"G", "9", "1", "\n">>,
     <<"G", "9", "2", "\n">>,
     <<"G", "9", "2", "X", "3", "\n">>,
     <<"G", "9", "2", "Y", "1", "E", "2", "\n">>,
     <<"G", "9", "2", "X", "1", "Y", "\n">>,
     <<"M", "1", "0", "5", "\n">>,
     <<"M", "1", "0", "9", "S", "1", "\n">>,
     <<"M", "1", "9", "0", "S", "1", "\n">>,
     <<"M", "3", "0", "3", "\n">>,
     <<"M", "1", "1", "9", "\n">>,
     <<"M", "1", "1", "4", "\n">>}

\* a parser that earlier G1, G90/G91 and G92 commands left with some
\* position and origin; the toolhead stands where the last move put it
CmdInit ==
    /\ inputfile \in BOOLEAN
    /\ heaters \in {{}, {"heater_nozzle"}, {"heater_nozzle", "heater_bed"}}
    /\ now = StartTime
    /\ nreads = 0
    /\ \E absolutecoord \in BOOLEAN, x \in 0..MaxCoord, bx \in 0..MaxCoord :
           LET last == [Zeros EXCEPT ![0] = x, ![1] = 1]
           IN gc = [NewParser EXCEPT !.absolutecoord = absolutecoord,
                                     !.last_position = last,
                                     !.toolhead.position = last,
                                     !.base_position = [Zeros EXCEPT ![0] = bx]]

\* the reactor finds the fd readable and process_data reads one command line
ProcessCommand ==
    /\ GcodeFrame
    /\ gc.running /\ gc.fd_registered
    /\ nreads < MaxCmds
    /\ \E data \in CmdChunks :
           /\ gc' \in process_data([gc EXCEPT !.log = [NoLog EXCEPT !.eventtime = now]],
                                    data)
           /\ nreads' = IF gc'.log.reads = <<>> THEN nreads ELSE nreads + 1
    /\ UNCHANGED <<inputfile, heaters, now>>

NextCmd == ProcessCommand \/ BusyHandler

(***************************************************************************)
(* stepcompress and steppersync (declared in klippy/chelper.py; the C code *)
(* is modelled from the design: "Step compressor", "Stepper sync").        *)
(* Clocks are MCU ticks.  Each compressor keeps the pushes it was given    *)
(* (input) and the ones it queued (steps) next to its own fields, and      *)
(* which of them were pending at a reset (resets, reset_at, at_reset).     *)
(***************************************************************************)
MaxClock == 4          \* step clocks 1..MaxClock
MaxSteps == 3          \* pushes, over all compressors
MaxResets == 1         \* calls of stepcompress_reset

Steppers == {1, 2}     \* sc_list, by index

Clocks == 1..MaxClock

MaxErrors == {1, 2}    \* the max_error values stepcompress_alloc is given

\* the interval and add fields of a queue_step the model draws from
Intervals == 0..MaxClock

Adds == {-1, 0, 1}

Abs(x) == IF x < 0 THEN 0 - x ELSE x

\* stepcompress_alloc(max_error, queue_step_msgid, oid)
stepcompress_alloc(max_error) ==
    [max_error |-> max_error, last_step_clock |-> 0, queue |-> <<>>,
     error_count |-> 0, input |-> <<>>, steps |-> <<>>,
     out |-> <<>>, reset_clock |-> 0, reset_at |-> 0, at_reset |-> {},
     resets |-> 0]

\* steppersync_alloc(sq, sc_list, sc_num, move_num)
steppersync_alloc ==
    [move_clock |-> 0, handed |-> <<>>, last_req |-> [s \in Steppers |-> 0]]

StepInit ==
    /\ sc \in {[s \in Steppers |-> stepcompress_alloc(e)] : e \in MaxErrors}
    /\ ss = steppersync_alloc

\* the clock of the k-th step of a queue_step (interval, count, add) issued
\* at last_step_clock
StepClock(last, interval, add, k) ==
    last + k * interval + add * ((k * (k + 1)) \div 2)

\* the MCU's step generator: the step clocks a command stream produces
RECURSIVE Decode(_, _)
Decode(cmds, last) ==
    IF cmds = <<>> THEN <<>>
    ELSE LET c == Head(cmds)
         IN [k \in 1..c.count |-> StepClock(last, c.interval, c.add, k)]
            \o Decode(Tail(cmds), StepClock(last, c.interval, c.add, c.count))

\* (interval, add) models the first n pending clocks within max_error
\* and every step's interval + k*add fits the command's field
Fits(last, clocks, n, interval, add, max_error) ==
    \A k \in 1..n :
        /\ interval + k * add \in Intervals
        /\ Abs(StepClock(last, interval, add, k) - clocks[k]) <= max_error

\* a run of one step has no use for add
Feasible(last, clocks, n, max_error) ==
    {p \in Intervals \X (IF n = 1 THEN {0} ELSE Adds) :
        Fits(last, clocks, n, p[1], p[2], max_error)}

\* the longest prefix some (interval, add) models
LongestRun(last, clocks, max_error) ==
    CHOOSE n \in 1..Len(clocks) :
        /\ Feasible(last, clocks, n, max_error) # {}
        /\ \A m \in (n + 1)..Len(clocks) : Feasible(last, clocks, m, max_error) = {}

\* where the compressor's reference clock is after a run: the clock of the
\* run's last emitted step
RunEndMutant(last, clocks, n, p) == clocks[n]
RunEnd(last, clocks, n, p) == StepClock(last, p[1], p[2], n)

\* the compression of the pending clocks: the runs it can close, each with
\* any of the (interval, add) pairs that model it, and the reference clock
\* it ends at
RECURSIVE Compress(_, _, _)
Compress(last, clocks, max_error) ==
    IF clocks = <<>> THEN {[cmds |-> <<>>, last |-> last]}
    ELSE LET n == LongestRun(last, clocks, max_error)
         IN UNION {
              {[cmds |-> <<[interval |-> p[1], count |-> n, add |-> p[2],
                            ref |-> last,
                            steps |-> SubSeq(clocks, 1, n)]>> \o r.cmds,
                last |-> r.last] :
                  r \in Compress(RunEnd(last, clocks, n, p),
                                 SubSeq(clocks, n + 1, Len(clocks)), max_error)} :
              p \in Feasible(last, clocks, n, max_error)}

\* stepcompress_push(sc, step_clock): a clock identical to the one queued
\* before it is counted and collapsed
stepcompress_push(c, step_clock) ==
    IF c.queue # <<>> /\ c.queue[Len(c.queue)] = step_clock
    THEN [c EXCEPT !.error_count = @ + 1, !.input = Append(@, step_clock)]
    ELSE [c EXCEPT !.queue = Append(@, step_clock),
                   !.input = Append(@, step_clock),
                   !.steps = Append(@, step_clock)]

\* the caller pushes a step clock no lower than the one before, the clock
\* of a reset included
Push(s, step_clock) ==
    /\ SumSeq([x \in 1..Cardinality(Steppers) |-> Len(sc[x].input)]) < MaxSteps
    /\ sc[s].input # <<>> => step_clock >= sc[s].input[Len(sc[s].input)]
    /\ step_clock >= sc[s].reset_clock
    /\ sc' = [sc EXCEPT ![s] = stepcompress_push(@, step_clock)]
    /\ UNCHANGED ss

\* stepcompress flush(move_clock): the queued clocks up to move_clock are
\* compressed; the result is one of the ways Compress can do it
FlushableMutant(c, move_clock) ==
    SelectSeq(c.queue, LAMBDA x : x < move_clock)
Flushable(c, move_clock) ==
    SelectSeq(c.queue, LAMBDA x : x <= move_clock)

\* the commands at the front of the output queue whose last step clock is
\* <= move_clock
RECURSIVE Ready(_, _)
Ready(cmds, move_clock) ==
    IF cmds = <<>> \/ Head(cmds).steps[Head(cmds).count] > move_clock THEN 0
    ELSE 1 + Ready(Tail(cmds), move_clock)

stepcompress_flush(c, move_clock) ==
    LET clocks == Flushable(c, move_clock)
    IN {LET all == c.out \o r.cmds
            n == Ready(all, move_clock)
        IN [sc |-> [c EXCEPT !.last_step_clock = r.last,
                             !.queue = SubSeq(@, Len(clocks) + 1, Len(@)),
                             !.out = SubSeq(all, n + 1, Len(all))],
            cmds |-> SubSeq(all, 1, n)] :
            r \in Compress(c.last_step_clock, clocks, c.max_error)}

\* the reference clock a reset leaves
ResetReferenceMutant(c, r, last_step_clock) == r.last
ResetReference(c, r, last_step_clock) == last_step_clock

\* stepcompress_reset(sc, last_step_clock): the pending clocks are compressed
\* against the old reference into the output queue (scenario S3: the run
\* ending at 1100 is still emitted), nothing stays pending, and the
\* reference clock is set
stepcompress_reset(c, last_step_clock) ==
    {[c EXCEPT !.out = @ \o r.cmds,
               !.queue = <<>>,
               !.last_step_clock = ResetReference(c, r, last_step_clock),
               !.reset_clock = last_step_clock,
               !.reset_at = Len(c.steps),
               !.resets = @ + 1,
               !.at_reset = @ \cup ((Len(c.steps) - Len(c.queue) + 1)..Len(c.steps))] :
        r \in Compress(c.last_step_clock, c.queue, c.max_error)}

\* steppersync_flush step 3: each command of stepper s gets req_clock, the
\* clock of its first step, and min_clock, the req_clock of the command
\* before it on that stepper
RECURSIVE Tag(_, _, _)
Tag(s, cmds, prev_req) ==
    IF cmds = <<>> THEN <<>>
    ELSE LET c == Head(cmds)
             req == c.steps[1]
         IN <<[stepper |-> s, req_clock |-> req, min_clock |-> prev_req,
               interval |-> c.interval, count |-> c.count, add |-> c.add,
               ref |-> c.ref, steps |-> c.steps]>>
            \o Tag(s, Tail(cmds), req)

\* steppersync_flush step 2: which command goes first
MergeBeforeMutant(a, b) == a.stepper <= b.stepper
MergeBefore(a, b) ==
    \/ a.req_clock < b.req_clock
    \/ a.req_clock = b.req_clock /\ a.stepper <= b.stepper

\* the merge of the per-stepper command lists into one stream
RECURSIVE Merge(_)
Merge(lists) ==
    LET live == {s \in DOMAIN lists : lists[s] # <<>>}
    IN IF live = {} THEN <<>>
       ELSE LET s == CHOOSE x \in live :
                         \A y \in live : MergeBefore(lists[x][1], lists[y][1])
            IN <<lists[s][1]>> \o Merge([lists EXCEPT ![s] = Tail(@)])

\* steppersync_flush(ss, move_clock): f is what each compressor's flush gave
steppersync_flush(sync, f, move_clock) ==
    LET lists == [s \in Steppers |-> Tag(s, f[s].cmds, sync.last_req[s])]
    IN [move_clock |-> move_clock,
        handed |-> sync.handed \o Merge(lists),
        last_req |-> [s \in Steppers |->
                         IF lists[s] = <<>> THEN sync.last_req[s]
                         ELSE lists[s][Len(lists[s])].req_clock]]

\* steppersync_flush step 1: what the compressors' flushes can give
RECURSIVE FlushFirst(_, _)
FlushFirst(n, move_clock) ==
    IF n = 0 THEN {<<>>}
    ELSE {Append(f, r) : f \in FlushFirst(n - 1, move_clock),
                         r \in stepcompress_flush(sc[n], move_clock)}

FlushAll(move_clock) == FlushFirst(Cardinality(Steppers), move_clock)

Flush(move_clock) ==
    /\ move_clock >= ss.move_clock
    /\ \E f \in FlushAll(move_clock) :
           /\ sc' = [s \in Steppers |-> f[s].sc]
           /\ ss' = steppersync_flush(ss, f, move_clock)

SyncPush == StepFrame /\ \E s \in Steppers, c \in Clocks : Push(s, c)

\* the move clocks worth telling apart: the cursor again, or the clock of a
\* step that is pending or in an output queue
MoveClocks ==
    {m \in Clocks :
        \/ m = ss.move_clock
        \/ \E s \in Steppers :
               \/ m \in Range(sc[s].queue)
               \/ \E i \in DOMAIN sc[s].out : m \in Range(sc[s].out[i].steps)}

SyncFlush == StepFrame /\ \E m \in MoveClocks : Flush(m)

NextSync == SyncPush \/ SyncFlush

\* one motor alone
CompressPush == StepFrame /\ \E c \in Clocks : Push(1, c)

NextCompress == CompressPush \/ SyncFlush

\* the clocks stepcompress_reset is called with: after the steps already
\* pushed
ResetClocks ==
    {c \in 0..MaxClock : \A i \in DOMAIN sc[1].input : c > sc[1].input[i]}

\* the motor's reference clock is reset (homing, endstop trigger)
Reset ==
    /\ StepFrame
    /\ sc[1].resets < MaxResets
    /\ \E c \in ResetClocks :
           \E r \in stepcompress_reset(sc[1], c) : sc' = [sc EXCEPT ![1] = r]
    /\ UNCHANGED ss

NextReset == CompressPush \/ SyncFlush \/ Reset

(***************************************************************************)
(* serialqueue (declared in klippy/chelper.py; the C code is modelled from *)
(* the design: "Serial queue").  The worker, the wire in both directions   *)
(* and the MCU's receiver are part of the model; the transport is in       *)
(* order, and lossless unless LoseFrame and LoseAck are among the actions. *)
(***************************************************************************)
MaxMsgs == 3           \* messages submitted with serialqueue_send
MaxEstClock == 1       \* the clock estimate runs over 0..MaxEstClock
MaxRecv == 2           \* messages received from the MCU

CommandQueues == {1, 2}

\* the (min_clock, req_clock) pairs a message is submitted with
SendClocks == {<<0, 1>>, <<0, 2>>, <<1, 1>>}

\* the cap on the depth of sent_queue
SentMax == 2

\* serialqueue_alloc(serial_fd, write_only), serialqueue_alloc_commandqueue
serialqueue_alloc ==
    [cq |-> [q \in CommandQueues |-> <<>>],
     sent_queue |-> <<>>,
     old_sent |-> <<>>,
     send_seq |-> 1,
     est_clock |-> 0,
     last_cq |-> 0,
     submitted |-> <<>>,
     wire |-> <<>>,
     receive_queue |-> <<>>,
     nrecv |-> 0,
     pulling |-> FALSE,
     pqm |-> <<>>,
     result |-> [op |-> "none", res |-> "none"],
     closed |-> FALSE]

SerialInit ==
    /\ sq = serialqueue_alloc
    /\ mcu = [receive_seq |-> 1, received |-> <<>>]
    /\ to_mcu = <<>>
    /\ to_host = <<>>

\* after serialqueue_exit every operation fails with QueueClosed
QueueClosedMutant(q) == FALSE
QueueClosed(q) == q.closed

\* serialqueue_send(sq, cq, msg, len, min_clock, req_clock)
serialqueue_send(q, cq, min_clock, req_clock) ==
    LET m == [id |-> Len(q.submitted) + 1, cq |-> cq,
              min_clock |-> min_clock, req_clock |-> req_clock]
    IN [q EXCEPT !.cq[cq] = Append(@, m), !.submitted = Append(@, m)]

\* serialqueue_send suspends its caller while sent_queue is at its cap
SendBlockedMutant(q) == FALSE
SendBlocked(q) == Len(q.sent_queue) >= SentMax

Send ==
    /\ SerialFrame
    /\ ~QueueClosed(sq)
    /\ Len(sq.submitted) < MaxMsgs
    /\ ~SendBlocked(sq)
    /\ \E cq \in CommandQueues, c \in SendClocks :
           sq' = serialqueue_send(sq, cq, c[1], c[2])
    /\ UNCHANGED <<mcu, to_mcu, to_host>>

\* serialqueue_set_clock_est: the estimate of the MCU clock advances
SetClockEst ==
    /\ SerialFrame
    /\ ~QueueClosed(sq)
    /\ sq.est_clock < MaxEstClock
    /\ sq' = [sq EXCEPT !.est_clock = @ + 1]
    /\ UNCHANGED <<mcu, to_mcu, to_host>>

\* a message is eligible once the estimated MCU clock has reached min_clock
EligibleMutant(q, m) == TRUE
Eligible(q, m) == q.est_clock >= m.min_clock

\* the messages of one command queue the worker chooses among: the queue is
\* an ordered list, its first message is the one up for sending
CandidatesMutant(q, cq) == {i \in DOMAIN q.cq[cq] : Eligible(q, q.cq[cq][i])}
Candidates(q, cq) ==
    IF q.cq[cq] # <<>> /\ Eligible(q, q.cq[cq][1]) THEN {1} ELSE {}

\* round-robin: how far command queue cq is after the one served last
Turn(q, cq) ==
    LET n == Cardinality(CommandQueues)
    IN (cq - q.last_cq - 1 + 2 * n) % n

\* the worker's choice: ascending req_clock, ties round-robin across the
\* command queues, then the earlier message of the queue
Selected(q) ==
    LET all == {<<cq, i>> : cq \in CommandQueues, i \in 1..MaxMsgs}
        cands == {p \in all : p[2] \in Candidates(q, p[1])}
        Key(p) == <<q.cq[p[1]][p[2]].req_clock, Turn(q, p[1]), p[2]>>
        Less(a, b) == \/ a[1] < b[1]
                      \/ a[1] = b[1] /\ a[2] < b[2]
                      \/ a[1] = b[1] /\ a[2] = b[2] /\ a[3] <= b[3]
    IN IF cands = {} THEN <<>>
       ELSE CHOOSE p \in cands : \A o \in cands : Less(Key(p), Key(o))

RemoveAt(s, i) == SubSeq(s, 1, i - 1) \o SubSeq(s, i + 1, Len(s))

\* the worker puts the selected message on the wire with the next sequence
\* number and keeps it in sent_queue until it is acked
Transmit ==
    /\ SerialFrame
    /\ ~QueueClosed(sq)
    /\ Selected(sq) # <<>>
    /\ Len(sq.sent_queue) < SentMax
    /\ LET p == Selected(sq)
           m == sq.cq[p[1]][p[2]]
           f == [seq |-> sq.send_seq, id |-> m.id]
       IN /\ sq' = [sq EXCEPT !.cq[p[1]] = RemoveAt(@, p[2]),
                              !.sent_queue = Append(@, f),
                              !.send_seq = @ + 1,
                              !.last_cq = p[1],
                              !.wire = Append(@, f)]
          /\ to_mcu' = Append(to_mcu, f)
    /\ UNCHANGED <<mcu, to_host>>

\* the MCU takes a frame off the wire, accepts it if it carries the sequence
\* it expects, and acks by echoing the next expected sequence
McuReceive ==
    /\ SerialFrame
    /\ to_mcu # <<>>
    /\ LET f == Head(to_mcu)
           ok == f.seq = mcu.receive_seq
           next_expected == IF ok THEN mcu.receive_seq + 1 ELSE mcu.receive_seq
       IN /\ mcu' = [receive_seq |-> next_expected,
                     received |-> IF ok THEN Append(mcu.received, f.id)
                                  ELSE mcu.received]
          /\ to_host' = Append(to_host, next_expected)
    /\ to_mcu' = Tail(to_mcu)
    /\ UNCHANGED sq

\* the messages an ack covers
AckCoversMutant(f, next_expected) == f.seq < next_expected - 1
AckCovers(f, next_expected) == f.seq < next_expected

\* the worker reads an ack: the messages it covers move from sent_queue to
\* the history extract_old reads
AckReceive ==
    /\ SerialFrame
    /\ ~QueueClosed(sq)
    /\ to_host # <<>>
    /\ LET a == Head(to_host)
       IN sq' = [sq EXCEPT
                   !.sent_queue = SelectSeq(@, LAMBDA f : ~AckCovers(f, a)),
                   !.old_sent = @ \o SelectSeq(sq.sent_queue,
                                               LAMBDA f : AckCovers(f, a))]
    /\ to_host' = Tail(to_host)
    /\ UNCHANGED <<mcu, to_mcu>>

\* serialqueue_extract_old(sq, sentq = 1, q, max)
serialqueue_extract_old(q) == q.old_sent

NextSerial == Send \/ SetClockEst \/ Transmit \/ McuReceive \/ AckReceive

\* the message the worker sends again when the retransmit timeout expires
\* with no progress: the head of sent_queue
RetransmitTargetMutant(q) == q.sent_queue[Len(q.sent_queue)]
RetransmitTarget(q) == Head(q.sent_queue)

\* the sequence number a retransmitted frame carries
RetransmitSeqMutant(q, f) == q.send_seq
RetransmitSeq(q, f) == f.seq

\* the retransmit timeout expires: what was put on the wire has arrived or
\* was lost, and no ack is on its way
Retransmit ==
    /\ SerialFrame
    /\ ~QueueClosed(sq)
    /\ sq.sent_queue # <<>>
    /\ to_mcu = <<>> /\ to_host = <<>>
    /\ LET f == RetransmitTarget(sq)
       IN to_mcu' = <<[f EXCEPT !.seq = RetransmitSeq(sq, f)]>>
    /\ UNCHANGED <<sq, mcu, to_host>>

\* the wire loses a frame on its way to the MCU
LoseFrame ==
    /\ SerialFrame
    /\ to_mcu # <<>>
    /\ to_mcu' = Tail(to_mcu)
    /\ UNCHANGED <<sq, mcu, to_host>>

\* the wire loses an ack on its way to the host
LoseAck ==
    /\ SerialFrame
    /\ to_host # <<>>
    /\ to_host' = Tail(to_host)
    /\ UNCHANGED <<sq, mcu, to_mcu>>

\* a producer whose messages are due at once
SendDue ==
    /\ Send
    /\ LET m == sq'.submitted[Len(sq'.submitted)]
       IN m.min_clock = 0 /\ m.req_clock = 1

\* the receive path: the worker appends a good frame from the MCU to
\* receive_queue
Receive ==
    /\ SerialFrame
    /\ ~QueueClosed(sq)
    /\ sq.nrecv < MaxRecv
    /\ sq' = [sq EXCEPT !.nrecv = @ + 1,
                        !.receive_queue = Append(@, [response |-> sq.nrecv + 1])]
    /\ UNCHANGED <<mcu, to_mcu, to_host>>

Result(op, res) == [op |-> op, res |-> res]

\* serialqueue_pull(sq, pqm) is called with a deadline: the caller waits
PullCall ==
    /\ SerialFrame
    /\ ~QueueClosed(sq)
    /\ ~sq.pulling
    /\ sq' = [sq EXCEPT !.pulling = TRUE]
    /\ UNCHANGED <<mcu, to_mcu, to_host>>

\* what a pull that returns a message leaves in receive_queue
PullTakeMutant(q) == <<>>
PullTake(q) == Tail(q.receive_queue)

\* a message is available: pull returns it
PullReturn ==
    /\ SerialFrame
    /\ ~QueueClosed(sq)
    /\ sq.pulling
    /\ sq.receive_queue # <<>>
    /\ sq' = [sq EXCEPT !.pulling = FALSE,
                        !.pqm = <<Head(sq.receive_queue)>>,
                        !.receive_queue = PullTake(sq),
                        !.result = Result("pull", "ok")]
    /\ UNCHANGED <<mcu, to_mcu, to_host>>

\* the deadline expires with no message available: pull returns Timeout
PullTimeout ==
    /\ SerialFrame
    /\ ~QueueClosed(sq)
    /\ sq.pulling
    /\ sq.receive_queue = <<>>
    /\ sq' = [sq EXCEPT !.pulling = FALSE, !.result = Result("pull", "Timeout")]
    /\ UNCHANGED <<mcu, to_mcu, to_host>>

\* serialqueue_exit(sq): the worker stops; the drain of send_queue and the
\* wait for acks are the worker's steps before it, as far as the deadline
\* lets them get
Exit ==
    /\ SerialFrame
    /\ ~QueueClosed(sq)
    /\ sq' = [sq EXCEPT !.closed = TRUE, !.result = Result("exit", "ok")]
    /\ UNCHANGED <<mcu, to_mcu, to_host>>

\* the operations called on a serial queue after exit
ClosedOps == {"send", "encode_and_send", "pull", "flush_ready", "exit"}

\* an operation on a closed queue, a pull that was waiting included, fails
ClosedCall ==
    /\ SerialFrame
    /\ QueueClosed(sq)
    /\ \E op \in ClosedOps :
           sq' = [sq EXCEPT !.pulling = IF op = "pull" THEN FALSE ELSE @,
                            !.result = Result(op, "QueueClosed")]
    /\ UNCHANGED <<mcu, to_mcu, to_host>>

NextApi ==
    \/ SendDue \/ Transmit \/ McuReceive \/ AckReceive
    \/ Receive \/ PullCall \/ PullReturn \/ PullTimeout
    \/ Exit \/ ClosedCall

NextLossy ==
    \/ SendDue \/ Transmit \/ McuReceive \/ AckReceive
    \/ Retransmit \/ LoseFrame \/ LoseAck

(***************************************************************************)
(* klippy/chelper.py: get_ffi and check_build_code.  None is 0; an object  *)
(* is the positive number of its construction.  File times are whole       *)
(* numbers; a missing file has no time.                                    *)
(***************************************************************************)
MaxMtime == 2          \* file times at the start
MaxTouch == 1          \* edits of a source file between calls
MaxCalls == 3          \* calls of get_ffi

None == 0

NoFfiLog ==
    [calls |-> 0, checks |-> 0, builds |-> 0, ffis |-> 0, dlopens |-> 0,
     rets |-> <<>>]

\* the module as imported: "FFI_main = None; FFI_lib = None"
FfiNew == FFI_main = None /\ FFI_lib = None /\ ffi_log = NoFfiLog

\* the sources and an up-to-date library, as after a build
FfiParked ==
    /\ FfiNew
    /\ fs = [src_times |-> {1}, lib |-> 1, clock |-> 1]

\* any directory: each source or header present or not, the library absent
\* (lib = 0), older, or newer than the sources
FfiInit ==
    /\ FfiNew
    /\ \E src \in SUBSET (1..MaxMtime), lib \in 0..MaxMtime :
           fs = [src_times |-> src, lib |-> lib, clock |-> MaxMtime]

MaxOf(S) == CHOOSE x \in S : \A y \in S : y <= x

MinOf(S) == CHOOSE x \in S : \A y \in S : x <= y

\* get_mtimes(srcdir, [DEST_LIB]): a missing file is skipped
ObjTimes(f) == IF f.lib = 0 THEN {} ELSE {f.lib}

\* check_build_code: "if not obj_times or max(src_times) > min(obj_times)"
NeedBuild(src_times, obj_times) ==
    obj_times = {} \/ MaxOf(src_times) > MinOf(obj_times)

\* check_build_code.  max() of an empty list raises ValueError; os.system
\* runs the compiler, which writes the library (compiled) or fails, and its
\* status is not looked at
check_build_code(f, compiled) ==
    LET src_times == f.src_times
        obj_times == ObjTimes(f)
    IN  IF obj_times # {} /\ src_times = {}
        THEN [fs |-> f, built |-> FALSE, raised |-> TRUE]
        ELSE IF NeedBuild(src_times, obj_times)
        THEN [fs |-> IF compiled /\ src_times # {}
                     THEN [f EXCEPT !.lib = f.clock] ELSE f,
              built |-> TRUE, raised |-> FALSE]
        ELSE [fs |-> f, built |-> FALSE, raised |-> FALSE]

\* get_ffi: "if FFI_lib is None"
NeedLoadMutant(lib) == TRUE
NeedLoad(lib) == lib = None

\* what a call of get_ffi hands back: the pair, or an exception
FfiRet(raised, main, lib, f) ==
    [raised |-> raised, main |-> main, lib |-> lib, fs |-> f]

\* get_ffi.  FFI_main.dlopen raises OSError when the library is not there,
\* after FFI_main was assigned and before FFI_lib is
GetFfi ==
    /\ FfiFrame
    /\ ffi_log.calls < MaxCalls
    /\ \E compiled \in BOOLEAN :
        LET log == [ffi_log EXCEPT !.calls = @ + 1]
            r == check_build_code(fs, compiled)
            main == ffi_log.ffis + 1
            lib == ffi_log.dlopens + 1
        IN  IF ~NeedLoad(FFI_lib)
            THEN /\ ffi_log' = [log EXCEPT
                        !.rets = Append(@, FfiRet(FALSE, FFI_main, FFI_lib, fs))]
                 /\ UNCHANGED <<FFI_main, FFI_lib, fs>>
            ELSE IF r.raised
            THEN /\ ffi_log' = [log EXCEPT
                        !.checks = @ + 1,
                        !.rets = Append(@, FfiRet(TRUE, None, None, fs))]
                 /\ UNCHANGED <<FFI_main, FFI_lib, fs>>
            ELSE /\ fs' = r.fs
                 /\ FFI_main' = main
                 /\ FFI_lib' = IF r.fs.lib # 0 THEN lib ELSE FFI_lib
                 /\ ffi_log' = [log EXCEPT
                        !.checks = @ + 1,
                        !.builds = IF r.built THEN @ + 1 ELSE @,
                        !.ffis = @ + 1,
                        !.dlopens = @ + 1,
                        !.rets = Append(@,
                            IF r.fs.lib # 0
                            THEN FfiRet(FALSE, main, lib, fs)
                            ELSE FfiRet(TRUE, None, None, fs))]

\* a source file is edited between two calls
TouchSource ==
    /\ FfiFrame
    /\ fs.clock < MaxMtime + MaxTouch
    /\ fs' = [fs EXCEPT !.clock = @ + 1, !.src_times = @ \cup {fs.clock + 1}]
    /\ UNCHANGED <<FFI_main, FFI_lib, ffi_log>>

\* c_helper.so is removed between two calls
RemoveLib ==
    /\ FfiFrame
    /\ fs.lib # 0
    /\ fs' = [fs EXCEPT !.lib = 0]
    /\ UNCHANGED <<FFI_main, FFI_lib, ffi_log>>

NextFfi == GetFfi \/ TouchSource \/ RemoveLib

(***************************************************************************)
(* Specifications                                                          *)
(***************************************************************************)
\* the other subsystems stay as constructed: an interactive parser with a
\* nozzle heater
GcodeParked == GcodeInit /\ ~inputfile /\ heaters = {"heater_nozzle"}

\* compressors with max_error 1, nothing pushed
StepParked == StepInit /\ \A s \in Steppers : sc[s].max_error = 1

Init == EnableInit /\ FfiParked /\ HomingParked /\ BuildInit /\ GcodeParked /\ StepParked /\ SerialInit

SpecEnable == Init /\ [][NextEnable]_vars

InitMotor ==
    EnableInit /\ FfiParked /\ HomingInit /\ BuildInit /\ GcodeParked /\ StepParked /\ SerialInit

SpecMotor == InitMotor /\ [][NextMotor]_vars

SpecBuild == Init /\ [][NextBuild]_vars

\* the parser in either mode, with or without a nozzle heater
InitGcode == EnableInit /\ FfiParked /\ HomingParked /\ BuildInit /\ GcodeInit /\ StepParked /\ SerialInit

\* compressors of either max_error
InitStep == EnableInit /\ FfiParked /\ HomingParked /\ BuildInit /\ GcodeParked /\ StepInit /\ SerialInit

SpecCompress == InitStep /\ [][NextCompress]_vars

SpecSync == Init /\ [][NextSync]_vars

SpecSerial == Init /\ [][NextSerial]_vars

\* the wire delivers what is on it and the worker reads the acks that arrive
SpecSerialFair ==
    Init /\ [][NextSerial]_vars /\ WF_vars(McuReceive) /\ WF_vars(AckReceive)

SpecGcode == InitGcode /\ [][NextGcode]_vars

InitCmd == EnableInit /\ FfiParked /\ HomingParked /\ BuildInit /\ CmdInit /\ StepParked /\ SerialInit

SpecCmd == InitCmd /\ [][NextCmd]_vars

\* the module freshly imported, in any directory
InitFfi ==
    EnableInit /\ FfiInit /\ HomingParked /\ BuildInit /\ GcodeParked /\ StepParked /\ SerialInit

SpecFfi == InitFfi /\ [][NextFfi]_vars

SpecReset == Init /\ [][NextReset]_vars

SpecApi == Init /\ [][NextApi]_vars

SpecLossy == Init /\ [][NextLossy]_vars

\* fair loss: a frame or an ack that keeps being sent is not lost every
\* time; the worker keeps running
SpecLossyFair ==
    /\ Init /\ [][NextLossy]_vars
    /\ WF_vars(Transmit) /\ WF_vars(Retransmit)
    /\ SF_vars(McuReceive) /\ SF_vars(AckReceive)

(* C1: while the parser is busy no command handler is invoked and no input *)
(* is read: every handler call and every read of a callback found            *)
(* busy_state None; a callback that leaves the busy state in place (a        *)
(* stalled process_data, or a poll that answered busy) keeps busy_state and  *)
(* the pending lines as they were; a poll that answered busy re-arms the     *)
(* timer RETRY_TIME after its eventtime; a busy parser always has a poll     *)
(* scheduled; handlers run in busy_handler only after the poll cleared       *)
(* busy_state.                                                               *)
BusyStateInv ==
    /\ \A k \in DOMAIN gc.log.calls : gc.log.calls[k].busy = "None"
    /\ \A k \in DOMAIN gc.log.reads : gc.log.reads[k] = "None"
    /\ gc.log.poll = "busy" =>
           /\ gc.busy_state # "None"
           /\ gc.log.calls = <<>>
           /\ gc.busy_timer = Timer("AT", gc.log.eventtime + RETRY_TIME)
    /\ gc.busy_state # "None" => gc.busy_timer.kind \in {"NOW", "AT"}

BusyStateStep ==
    (gc.busy_state # "None" /\ gc' # gc /\ gc'.is_shutdown = gc.is_shutdown)
        => \/ gc'.log.poll \in {"idle", "endstop", "error"}
           \/ /\ gc'.busy_state = gc.busy_state
              /\ gc'.input_commands = gc.input_commands
              /\ gc'.log.calls = <<>>
              /\ gc'.log.reads = <<>>

BusyStallsInput == []BusyStateInv /\ [][BusyStateStep]_vars

\* busy_handler found the busy state over and resumed on a pending line; the
\* fd is registered again after process_data had stalled it
BusyWitness ==
    /\ gc.log.poll = "idle"
    /\ gc.log.calls # <<>>
    /\ gc.log.eventtime >= StartTime + RETRY_TIME
    /\ gc.busy_state = "None"
    /\ gc.fd_registered

(* C3: when toolhead.move raises EndstopError in G0/G1, the handler responds *)
(* "Error: ...", last_position becomes the toolhead's position, the handler  *)
(* does not raise (so toolhead.force_shutdown is not called for it), and the *)
(* command is acknowledged like any other: "ok" is written, or the toolhead  *)
(* is busy and the ack is left to busy_handler.  Stated on the callback      *)
(* whose last handler call is that G0/G1.                                    *)
EndstopCall(st) ==
    /\ st.log.calls # <<>>
    /\ st.log.calls[Len(st.log.calls)].move = "endstop"

EndstopResyncs ==
    /\ \A k \in DOMAIN gc.log.calls :
           gc.log.calls[k].move = "endstop" =>
               /\ gc.log.calls[k].cmd \in {Cmd("G", <<"0">>), Cmd("G", <<"1">>)}
               /\ ~gc.log.calls[k].raised
    /\ EndstopCall(gc) =>
           /\ "Error: endstop" \in Range(gc.log.debug)
           /\ ~inputfile => "Error: endstop" \in Range(gc.log.out)
           /\ gc.last_position = gc.toolhead.position
           /\ \/ gc.busy_state = "toolhead" /\ gc.need_ack /\ gc.busy_timer = NOW
              \/ /\ gc.busy_state = "None"
                 /\ inputfile \/ (~gc.need_ack /\ gc.log.out[Len(gc.log.out)] = "ok")

\* an interactive G1 hit the endstop, was answered "ok", and the machine is
\* not shut down
EndstopWitness ==
    /\ EndstopCall(gc)
    /\ ~inputfile
    /\ gc.log.out = <<"Error: endstop", "ok">>
    /\ gc.busy_state = "None"
    /\ ~gc.toolhead.shutdown
    /\ gc.last_position = Zeros

(* C2: the hardware pin is written only on a 0<->1 transition of           *)
(* enable_count: an enable call writes 1 exactly when it finds the counter *)
(* at 0, a disable call writes 0 exactly when it takes the counter from 1  *)
(* to 0, and every other call leaves the pin (value and time) untouched.   *)
EnableWritesOnlyOnTransition ==
    [][ /\ (enable_call'.enable /\ enable_call'.before = 0)
            <=> (enable_call'.wrote = <<1>>)
        /\ (~enable_call'.enable /\ enable_call'.before = 1)
            <=> (enable_call'.wrote = <<0>>)
        /\ enable_call'.wrote = <<>>
            => (pin_value' = pin_value /\ pin_time' = pin_time)
        /\ enable_call'.wrote # <<>>
            => (pin_value' = Head(enable_call'.wrote)
                /\ (enable_count' - enable_count) \in {1, -1}
                /\ {enable_count, enable_count'} = {0, 1})
        /\ enable_call'.before = enable_count
        /\ Len(enable_call'.wrote) <= 1 ]_evars

\* a disable that takes the counter from 2 to 1 (no write) after the pin was
\* raised, i.e. at least two enables and a non-transition disable happened
EnableWitness ==
    /\ ~enable_call.enable
    /\ enable_call.before = 2
    /\ enable_count = 1
    /\ pin_value = 1


(* C4: every command_encoder the build tool emits has                      *)
(* max_size = min(MESSAGE_MAX, MESSAGE_MIN + 1 + sum of the max_length of  *)
(* its parameter types); so max_size is at least MESSAGE_MIN + 1 and never *)
(* exceeds MESSAGE_MAX.                                                    *)
EncoderMaxSizeRule ==
    \A k \in DOMAIN encoder_defs :
        LET d == encoder_defs[k]
            total == MESSAGE_MIN + 1 + SumSeq(d.comment.params)
        IN /\ d.max_size >= MESSAGE_MIN + 1
           /\ d.max_size <= MESSAGE_MAX
           /\ d.max_size <= total
           /\ d.max_size = total \/ d.max_size = MESSAGE_MAX

\* a finished build with one encoder capped at MESSAGE_MAX and one below it
EncoderMaxSizeWitness ==
    /\ b_pc = "done"
    /\ \E k \in DOMAIN encoder_defs :
           /\ encoder_defs[k].max_size = MESSAGE_MAX
           /\ MESSAGE_MIN + 1 + SumSeq(encoder_defs[k].comment.params) > MESSAGE_MAX
    /\ \E k \in DOMAIN encoder_defs :
           /\ encoder_defs[k].max_size < MESSAGE_MAX
           /\ encoder_defs[k].num_params > 0

(* C5: the data dictionary has the keys messages, commands, responses,     *)
(* static_strings, config, version and build_versions; every id listed in  *)
(* commands or responses is a key of messages (as JSON writes it); no id   *)
(* is in both lists; responses are exactly the ids of the named messages   *)
(* that are not declared commands.                                         *)
DataDictionaryShape ==
    b_pc = "done" =>
        /\ DOMAIN datadict = {"messages", "commands", "responses", "static_strings",
                              "config", "version", "build_versions"}
        /\ \A id \in Range(datadict["commands"]) \cup Range(datadict["responses"]) :
               JsonKey(id) \in DOMAIN datadict["messages"]
        /\ Range(datadict["commands"]) \cap Range(datadict["responses"]) = {}
        /\ \A n \in DOMAIN messages_by_name :
               LET key == JsonKey(msg_to_id[messages_by_name[n]])
               IN /\ key \in DOMAIN datadict["messages"]
                  /\ datadict["messages"][key] = messages_by_name[n]
                  /\ n \in commands <=>
                         msg_to_id[messages_by_name[n]] \in Range(datadict["commands"])
                  /\ n \notin commands <=>
                         msg_to_id[messages_by_name[n]] \in Range(datadict["responses"])
        /\ Len(datadict["responses"]) = Cardinality(DOMAIN messages_by_name \ commands)
        /\ Len(datadict["commands"]) = Cardinality(commands)

\* a finished build with a declared command, a declared encoder that is not a
\* command, and the default identify message declared as a command
DataDictionaryWitness ==
    /\ b_pc = "done"
    /\ "identify" \in commands
    /\ "b" \in DOMAIN messages_by_name
    /\ Len(datadict["responses"]) >= 2
    /\ Len(datadict["commands"]) >= 1

(* C6: the k-th declared static string (k from 0) has id                   *)
(* k + STATIC_STRING_MIN in the dictionary's static_strings map and in the *)
(* generated ctr_lookup_static_string code; all ids are at least           *)
(* STATIC_STRING_MIN; the id the generated lookup returns for a declared   *)
(* string is mapped back to that string by the dictionary.                 *)
StaticStringIds ==
    b_pc = "done" =>
        /\ Len(static_code) = Len(static_strings)
        /\ \A i \in DOMAIN static_strings :
               LET k == i - 1
               IN /\ JsonKey(k + STATIC_STRING_MIN) \in DOMAIN datadict["static_strings"]
                  /\ datadict["static_strings"][JsonKey(k + STATIC_STRING_MIN)]
                         = static_strings[i]
                  /\ static_code[i] = [str |-> static_strings[i],
                                       ret |-> k + STATIC_STRING_MIN]
                  /\ LET id == ctr_lookup_static_string(static_code, static_strings[i])
                     IN /\ id >= STATIC_STRING_MIN
                        /\ JsonKey(id) \in DOMAIN datadict["static_strings"]
                        /\ datadict["static_strings"][JsonKey(id)] = static_strings[i]
        /\ Cardinality(DOMAIN datadict["static_strings"]) = Len(static_strings)
        /\ \A key \in DOMAIN datadict["static_strings"] :
               \E i \in DOMAIN static_strings : key = JsonKey(i - 1 + STATIC_STRING_MIN)

\* a finished build that declared two different static strings, one of them twice
StaticStringWitness ==
    /\ b_pc = "done"
    /\ Len(static_strings) >= 3
    /\ static_strings[1] = static_strings[3]
    /\ static_strings[2] # static_strings[1]
    /\ ctr_lookup_static_string(static_code, static_strings[3]) = STATIC_STRING_MIN

(* C7: decoding the queue_step commands of a compressor reproduces the      *)
(* step clocks it was given within max_error: the decoded steps are, one    *)
(* for one and in order, within max_error of the clocks the compressor      *)
(* queued (identical consecutive clocks are collapsed into one), what is    *)
(* not yet emitted is still pending, and every clock pushed and no longer   *)
(* pending has a decoded step within max_error of it.                       *)
CommandsOf(s) == SelectSeq(ss.handed, LAMBDA c : c.stepper = s)

HandedNow == SubSeq(ss'.handed, Len(ss.handed) + 1, Len(ss'.handed))

FlushOrderStep ==
    /\ Len(ss'.handed) >= Len(ss.handed)
    /\ SubSeq(ss'.handed, 1, Len(ss.handed)) = ss.handed
    /\ \A i, j \in DOMAIN HandedNow :
           i < j =>
               \/ HandedNow[i].req_clock < HandedNow[j].req_clock
               \/ /\ HandedNow[i].req_clock = HandedNow[j].req_clock
                  /\ HandedNow[i].stepper < HandedNow[j].stepper
    /\ \A i \in DOMAIN HandedNow : HandedNow[i].req_clock = HandedNow[i].steps[1]
    /\ \A s \in Steppers :
           SumSeq([i \in DOMAIN HandedNow |->
                      IF HandedNow[i].stepper = s THEN HandedNow[i].count ELSE 0])
               = Len(sc[s].queue) - Len(sc'[s].queue)
                 + (Len(sc'[s].steps) - Len(sc[s].steps))

WirePos(id) == CHOOSE i \in DOMAIN sq.wire : sq.wire[i].id = id

OnWire(id) == \E i \in DOMAIN sq.wire : sq.wire[i].id = id

InSentQueue(id) == \E i \in DOMAIN sq.sent_queue : sq.sent_queue[i].id = id

InOldSent(id) ==
    \E i \in DOMAIN serialqueue_extract_old(sq) :
        serialqueue_extract_old(sq)[i].id = id

OldSentInSendOrder ==
    /\ serialqueue_extract_old(sq)
           = SubSeq(sq.wire, 1, Len(serialqueue_extract_old(sq)))
    /\ \A id \in 1..MaxMsgs : ~(InSentQueue(id) /\ InOldSent(id))

SentIsAcked ==
    /\ []OldSentInSendOrder
    /\ \A id \in 1..MaxMsgs :
           InSentQueue(id) ~> (~InSentQueue(id) /\ InOldSent(id))

\* three messages were submitted, sent and acked, and all are in the history
SentIsAckedWitness ==
    /\ Len(sq.submitted) >= 3
    /\ Len(serialqueue_extract_old(sq)) = Len(sq.submitted)
    /\ sq.sent_queue = <<>>

(* C11: under fair loss every message submitted to the serial queue is     *)
(* eventually delivered to the MCU and acknowledged: it is among the       *)
(* messages the MCU accepted and in the history of acked messages.         *)
Submitted(id) == Len(sq.submitted) >= id

Delivered(id) == id \in Range(mcu.received)

RetransmitProgress ==
    \A id \in 1..MaxMsgs : Submitted(id) ~> (Delivered(id) /\ InOldSent(id))

\* every message was delivered and acked, and a retransmission of the
\* second message sent is on the wire
RetransmitProgressWitness ==
    /\ Len(sq.submitted) >= 3
    /\ \A id \in DOMAIN sq.submitted : Delivered(id)
    /\ Len(sq.old_sent) >= 1
    /\ to_mcu # <<>> /\ Len(sq.wire) >= 2 /\ to_mcu[1] = sq.wire[2]
    /\ sq.send_seq > to_mcu[1].seq + 1

(* C12: a frame put on the wire without a new sequence number (a           *)
(* retransmission) is the head of sent_queue, as it was first sent: same   *)
(* message, same sequence number; when the worker reads an ack, every      *)
(* message with seq < next_expected leaves sent_queue for the history and  *)
(* the others stay, so the ack that echoes send_seq leaves sent_queue      *)
(* empty.                                                                  *)
RetransmitStep ==
    /\ Len(to_mcu') > Len(to_mcu)
    /\ sq'.send_seq = sq.send_seq

RetransmitSameSeqStep ==
    /\ RetransmitStep =>
           /\ sq.sent_queue # <<>>
           /\ to_mcu'[Len(to_mcu')] = sq.sent_queue[1]
           /\ \E i \in DOMAIN sq.wire : sq.wire[i] = to_mcu'[Len(to_mcu')]
           /\ sq'.sent_queue = sq.sent_queue
    /\ AckReceive =>
           LET next_expected == Head(to_host)
           IN /\ \A i \in DOMAIN sq'.sent_queue :
                     sq'.sent_queue[i].seq >= next_expected
              /\ \A i \in DOMAIN sq.sent_queue :
                     IF sq.sent_queue[i].seq < next_expected
                     THEN \E j \in DOMAIN sq'.old_sent :
                              sq'.old_sent[j] = sq.sent_queue[i]
                     ELSE \E j \in DOMAIN sq'.sent_queue :
                              sq'.sent_queue[j] = sq.sent_queue[i]
              /\ next_expected = sq.send_seq => sq'.sent_queue = <<>>

RetransmitSameSeq == [][RetransmitSameSeqStep]_vars

\* the MCU accepted the first two messages but the host saw no ack for
\* them, and the first is on the wire again with its sequence number
RetransmitSameSeqWitness ==
    /\ Len(sq.sent_queue) = 2
    /\ sq.old_sent = <<>>
    /\ mcu.receive_seq = 3
    /\ to_host = <<>>
    /\ to_mcu = <<sq.wire[1]>>
    /\ sq.wire[1].seq = 1

(* C13: sent_queue never holds more than its cap of un-acked messages; no  *)
(* serialqueue_send completes while sent_queue is at the cap, and          *)
(* sent_queue leaves the cap only when the worker reads an ack that covers *)
(* its head, so without acks a send issued at the cap never completes.     *)
SendCompletes == Len(sq'.submitted) > Len(sq.submitted)

BackpressureStep ==
    /\ SendCompletes => Len(sq.sent_queue) < SentMax
    /\ (Len(sq.sent_queue) = SentMax /\ Len(sq'.sent_queue) < SentMax)
           => /\ to_host # <<>>
              /\ to_host' = Tail(to_host)
              /\ Head(to_host) > sq.sent_queue[1].seq
              /\ ~SendCompletes

Backpressure ==
    /\ [](Len(sq.sent_queue) <= SentMax)
    /\ [][BackpressureStep]_vars

\* sent_queue is at its cap again after an ack had freed a slot for the
\* third message
BackpressureWitness ==
    /\ Len(sq.sent_queue) = SentMax
    /\ sq.old_sent # <<>>
    /\ Len(sq.submitted) >= 3
    /\ SendBlocked(sq)

(* C14: at the moment the worker puts a message on the wire for the first  *)
(* time the estimated MCU clock is at least the message's min_clock.       *)
FirstTransmission == Len(sq'.wire) > Len(sq.wire)

EligibleWhenSentStep ==
    FirstTransmission =>
        LET f == sq'.wire[Len(sq'.wire)]
        IN /\ f.id \in DOMAIN sq.submitted
           /\ sq.est_clock >= sq.submitted[f.id].min_clock
           /\ to_mcu' = Append(to_mcu, f)

EligibleWhenSent == [][EligibleWhenSentStep]_vars

\* a message with min_clock 1 is on the wire, after a message submitted
\* later on the other command queue that was eligible before it
EligibleWhenSentWitness ==
    \E i, j \in DOMAIN sq.wire :
        /\ i < j
        /\ sq.submitted[sq.wire[j].id].min_clock = 1
        /\ sq.submitted[sq.wire[i].id].min_clock = 0
        /\ sq.wire[j].id < sq.wire[i].id

(* C15 as stated: flushes partition the steps.  A flush to move_clock      *)
(* emits, for every stepper, exactly its pending steps with clock <=       *)
(* move_clock, each once, and leaves the later ones pending; the steps     *)
(* emitted by one flush are in clock order across steppers.                *)
RECURSIVE StepsIn(_, _)
StepsIn(cmds, s) ==
    IF cmds = <<>> THEN <<>>
    ELSE (IF Head(cmds).stepper = s THEN Head(cmds).steps ELSE <<>>)
         \o StepsIn(Tail(cmds), s)

RECURSIVE EmittedSteps(_)
EmittedSteps(cmds) ==
    IF cmds = <<>> THEN <<>>
    ELSE [k \in DOMAIN Head(cmds).steps |->
             [stepper |-> Head(cmds).stepper, clock |-> Head(cmds).steps[k]]]
         \o EmittedSteps(Tail(cmds))

FlushStep == \A s \in Steppers : sc'[s].input = sc[s].input

EachStepOnce ==
    \A s \in Steppers : StepsIn(ss.handed, s) \o sc[s].queue = sc[s].steps

FlushEmitsPending ==
    /\ ss'.move_clock >= ss.move_clock
    /\ \A s \in Steppers :
           /\ StepsIn(HandedNow, s)
                  = SelectSeq(sc[s].queue, LAMBDA x : x <= ss'.move_clock)
           /\ sc'[s].queue
                  = SelectSeq(sc[s].queue, LAMBDA x : x > ss'.move_clock)
           /\ sc'[s].steps = sc[s].steps

StepsInClockOrder ==
    LET e == EmittedSteps(HandedNow)
    IN \A i, j \in DOMAIN e :
           (i < j /\ e[i].stepper # e[j].stepper) => e[i].clock <= e[j].clock

CommandsInClockOrder ==
    \A i, j \in DOMAIN HandedNow :
        i < j => HandedNow[i].steps[1] <= HandedNow[j].steps[1]

Stream(s) ==
    LET h == CommandsOf(s)
    IN [k \in DOMAIN h |-> [ref |-> h[k].ref, interval |-> h[k].interval,
                            add |-> h[k].add, count |-> h[k].count,
                            steps |-> h[k].steps]]
       \o sc[s].out

RECURSIVE AllSteps(_)
AllSteps(cmds) ==
    IF cmds = <<>> THEN <<>> ELSE Head(cmds).steps \o AllSteps(Tail(cmds))

FirstStep(cmds, k) == SumSeq([i \in 1..(k - 1) |-> cmds[i].count]) + 1

AfterResetUsesReference ==
    \A s \in Steppers :
        LET cmds == Stream(s)
        IN \A k \in DOMAIN cmds :
               FirstStep(cmds, k) = sc[s].reset_at + 1
                   => cmds[k].ref = sc[s].reset_clock

ResetKeepsInv ==
    \A s \in Steppers :
        LET cmds == Stream(s)
        IN /\ AllSteps(cmds) \o sc[s].queue = sc[s].steps
           /\ Len(sc[s].steps) - Len(sc[s].queue) >= sc[s].reset_at
           /\ \A k \in DOMAIN cmds :
                  LET c == cmds[k]
                      first == FirstStep(cmds, k)
                  IN /\ \A j \in 1..c.count :
                            Abs(StepClock(c.ref, c.interval, c.add, j) - c.steps[j])
                                <= sc[s].max_error
                     /\ ~(first <= sc[s].reset_at /\ first + c.count - 1 > sc[s].reset_at)
                     /\ first > sc[s].reset_at + 1 =>
                            c.ref = StepClock(cmds[k - 1].ref, cmds[k - 1].interval,
                                              cmds[k - 1].add, cmds[k - 1].count)

ResetKeepsStep ==
    \A s \in Steppers :
        sc'[s].resets > sc[s].resets =>
            /\ sc'[s].queue = <<>>
            /\ sc'[s].last_step_clock = sc'[s].reset_clock
            /\ sc'[s].steps = sc[s].steps
            /\ sc'[s].reset_at = Len(sc[s].steps)
            /\ AllSteps(sc'[s].out) = AllSteps(sc[s].out) \o sc[s].queue
            /\ ss' = ss

ExitIrreversibleStep ==
    sq.closed =>
        /\ sq'.closed
        /\ sq' = [sq EXCEPT !.result = sq'.result, !.pulling = sq'.pulling]
        /\ sq' # sq => /\ sq'.result.res = "QueueClosed"
                       /\ sq'.result.op \in ClosedOps
        /\ sq'.pulling => sq.pulling
        /\ Len(to_mcu') <= Len(to_mcu)
        /\ Len(to_host') >= Len(to_host)
        /\ SubSeq(to_host', 1, Len(to_host)) = to_host

PullEnds == sq.pulling /\ ~sq'.pulling /\ ~sq.closed

PullDeadlineStep ==
    PullEnds =>
        /\ <<mcu', to_mcu', to_host'>> = <<mcu, to_mcu, to_host>>
        /\ IF sq.receive_queue = <<>>
           THEN /\ sq'.result = Result("pull", "Timeout")
                /\ sq' = [sq EXCEPT !.pulling = FALSE, !.result = sq'.result]
           ELSE /\ sq'.result = Result("pull", "ok")
                /\ sq'.pqm = <<sq.receive_queue[1]>>
                /\ <<sq.receive_queue[1]>> \o sq'.receive_queue = sq.receive_queue
                /\ sq' = [sq EXCEPT !.pulling = FALSE, !.result = sq'.result,
                                    !.pqm = sq'.pqm,
                                    !.receive_queue = sq'.receive_queue]

GcodeCallback == gc' # gc /\ gc'.is_shutdown = gc.is_shutdown

Pending(st) == IF st.need_ack THEN 1 ELSE 0

IsOk(line) == line = "ok" \/ line = "ok " \o get_temp

OkLines(out) == Cardinality({k \in DOMAIN out : IsOk(out[k])})

AckOnceStep ==
    (GcodeCallback /\ ~inputfile) =>
        LET calls == gc'.log.calls
            acks == gc'.log.acks
        IN /\ \A j \in DOMAIN acks :
                  /\ acks[j].ncalls = j - Pending(gc)
                  /\ acks[j].busy = "None"
           /\ Pending(gc) + Len(calls) - Len(acks) = Pending(gc')
           /\ gc'.need_ack => gc'.busy_state # "None"
           /\ OkLines(gc'.log.out) = Len(acks)
           /\ \A k \in DOMAIN calls :
                  (calls[k].cmd = Cmd("M", <<"1", "0", "5">>) /\ ~calls[k].raised
                   /\ Cmd("M", <<"1", "0", "5">>) \in gc.gcode_handlers)
                      => \E m \in DOMAIN gc'.log.out :
                             gc'.log.out[m] = (IF get_temp = "" THEN "ok"
                                               ELSE "ok " \o get_temp)

AckOnce == [][AckOnceStep]_vars

\* a busy poll cleared the busy state, acknowledged the command that had
\* been waiting, and went on to dispatch M105, which was answered with the
\* temperatures: two commands, two ok lines
AckOnceWitness ==
    /\ ~inputfile
    /\ gc.log.poll = "idle"
    /\ Len(gc.log.calls) = 1
    /\ gc.log.calls[1].cmd = Cmd("M", <<"1", "0", "5">>)
    /\ gc.log.out = <<"ok", "ok T:">>
    /\ ~gc.need_ack

(* C20: no input line is lost or duplicated.  process_data reads only when *)
(* input_commands holds exactly one element, the unterminated rest of the  *)
(* input.  In every callback the characters held before it, followed by    *)
(* the bytes it read, are the lines its loop took, each with its newline,  *)
(* followed by what it leaves in input_commands: the lines are taken once, *)
(* in order, whether the loop runs in process_data or resumes in           *)
(* busy_handler, and the unterminated rest stays.  Each line that holds a  *)
(* command word is dispatched, in the same order.                          *)
RECURSIVE JoinLines(_)
JoinLines(lines) ==
    IF Len(lines) = 1 THEN lines[1]
    ELSE lines[1] \o <<"\n">> \o JoinLines(Tail(lines))

RECURSIVE Terminated(_)
Terminated(lines) ==
    IF lines = <<>> THEN <<>>
    ELSE lines[1] \o <<"\n">> \o Terminated(Tail(lines))

IsCommand(cmd) == cmd # <<>>

NoLineLostStep ==
    GcodeCallback =>
        LET log == gc'.log
            words == [k \in DOMAIN log.lines |-> ParseLine(log.lines[k]).cmd]
        IN /\ log.reads # <<>> => Len(gc.input_commands) = 1
           /\ log.reads = <<>> => log.data = <<>>
           /\ gc'.input_commands # <<>>
           /\ gc'.busy_state = "None" => Len(gc'.input_commands) = 1
           /\ JoinLines(gc.input_commands) \o log.data
                  = Terminated(log.lines) \o JoinLines(gc'.input_commands)
           /\ \A k \in DOMAIN gc'.input_commands :
                  "\n" \notin Range(gc'.input_commands[k])
           /\ [k \in DOMAIN log.calls |-> log.calls[k].cmd]
                  = SelectSeq(words, IsCommand)

NoLineLost == [][NoLineLostStep]_vars

\* process_data found the unterminated "G1" of an earlier read, read "X\n"
\* and dispatched the completed line "G1X" as one G1 command
NoLineLostWitness ==
    /\ gc.log.reads # <<>>
    /\ gc.log.data = <<"X", "\n">>
    /\ gc.log.lines = << <<"G", "1", "X">> >>
    /\ Len(gc.log.calls) = 1
    /\ gc.log.calls[1].cmd = Cmd("G", <<"1">>)
    /\ gc.input_commands = << <<>> >>

(* C21: input is never left stalled.  The fd is unregistered exactly while *)
(* need_register_fd is set, and that only while a busy poll is still       *)
(* scheduled; the busy_handler call that ends idle with the flag set       *)
(* registers the fd once and clears the flag, no other callback registers  *)
(* it; so whenever busy_state is None and the busy timer is NEVER the fd   *)
(* is registered.                                                          *)
InputRegisteredInv ==
    /\ gc.fd_registered <=> ~gc.need_register_fd
    /\ gc.busy_timer = NEVER => gc.busy_state = "None"
    /\ (gc.busy_state = "None" /\ gc.busy_timer = NEVER) => gc.fd_registered
    /\ gc.log.registers \in {0, 1}

InputRegisteredStep ==
    GcodeCallback =>
        /\ (gc'.log.poll \notin {"none", "busy"} /\ gc'.busy_state = "None"
            /\ gc.need_register_fd)
               => (gc'.fd_registered /\ ~gc'.need_register_fd
                   /\ gc'.log.registers = 1)
        /\ gc'.log.registers = 1
               => (gc.need_register_fd /\ ~gc.fd_registered
                   /\ gc'.log.poll \notin {"none", "busy"}
                   /\ gc'.busy_state = "None")
        /\ (gc.fd_registered /\ ~gc'.fd_registered)
               => (gc.busy_state # "None" /\ gc'.log.reads = <<>>
                   /\ gc'.log.poll = "none")

InputRegistered == []InputRegisteredInv /\ [][InputRegisteredStep]_vars

\* process_data had unregistered the fd while the parser was busy; the poll
\* that found it idle acknowledged the command and registered the fd again
InputRegisteredWitness ==
    /\ gc.log.registers = 1
    /\ gc.log.poll = "idle"
    /\ gc.fd_registered /\ ~gc.need_register_fd
    /\ gc.busy_state = "None" /\ gc.busy_timer = NEVER
    /\ gc.running

(* C22: once the parser is shut down it stays shut down and its handler    *)
(* table holds only M105, M110 and M114 (those that were configured).      *)
(* Every line that does not name one of them goes to cmd_default, which    *)
(* answers "Error: Machine is shutdown"; no callback of a shut-down parser *)
(* moves, homes or dwells the toolhead, sets a heater target or the fan    *)
(* speed, or enters a busy state other than the toolhead's own.            *)
Count(seq, x) == Cardinality({k \in DOMAIN seq : seq[k] = x})

ShutdownSticksStep ==
    gc.is_shutdown =>
        /\ gc'.is_shutdown
        /\ gc'.gcode_handlers = gc.gcode_handlers
        /\ gc'.gcode_handlers
               \subseteq {Cmd("M", <<"1", "0", "5">>), Cmd("M", <<"1", "1", "0">>),
                          Cmd("M", <<"1", "1", "4">>)}

ShutdownRefusesStep ==
    (gc.is_shutdown /\ GcodeCallback) =>
        LET log == gc'.log
            refused == {k \in DOMAIN log.lines :
                            ParseLine(log.lines[k]).cmd \notin gc.gcode_handlers}
        IN /\ Count(log.debug, "Error: Machine is shutdown") = Cardinality(refused)
           /\ ~inputfile =>
                  Count(log.out, "Error: Machine is shutdown") = Cardinality(refused)
           /\ gc'.toolhead.position = gc.toolhead.position
           /\ gc'.toolhead.target = gc.toolhead.target
           /\ gc'.toolhead.fan = gc.toolhead.fan
           /\ gc'.homing_axes = gc.homing_axes
           /\ \A k \in DOMAIN log.calls :
                  /\ log.calls[k].move = "none"
                  /\ log.calls[k].cmd \notin gc.gcode_handlers => ~log.calls[k].raised
           /\ gc'.busy_state \in {gc.busy_state, "None", "toolhead"}
           /\ log.poll = "none" =>
                  /\ gc'.last_position = gc.last_position
                  /\ gc'.base_position = gc.base_position

ShutdownRefuses == [][ShutdownSticksStep /\ ShutdownRefusesStep]_vars

\* the machine was shut down while homing stalled the input; the poll that
\* ended the homing resumed the queued "G1X2", which was refused: the
\* toolhead never moved
ShutdownRefusesWitness ==
    /\ gc.is_shutdown
    /\ gc.log.poll = "idle"
    /\ Len(gc.log.calls) = 1
    /\ gc.log.calls[1].cmd = Cmd("G", <<"1">>)
    /\ "Error: Machine is shutdown" \in Range(gc.log.debug)
    /\ gc.toolhead.position = Zeros
    /\ gc.last_position = Zeros

(* C23: a handler that raises does not end process_commands.  The callback *)
(* calls toolhead.force_shutdown and responds "Error: Internal error on    *)
(* command" once for each handler that raised; the command is then treated *)
(* like any other: either the toolhead is busy and the callback ends with  *)
(* that command pending, or the command is acknowledged and the loop goes  *)
(* on, so that a callback that ends idle has taken every complete line.    *)
RaisedCalls(calls) == {k \in DOMAIN calls : calls[k].raised}

HandlerErrorStep ==
    (GcodeCallback /\ RaisedCalls(gc'.log.calls) # {}) =>
        LET log == gc'.log
            raised == RaisedCalls(log.calls)
        IN /\ gc'.toolhead.shutdown
           /\ Count(log.debug, "Error: Internal error on command") = Cardinality(raised)
           /\ ~inputfile =>
                  Count(log.out, "Error: Internal error on command") = Cardinality(raised)
           /\ \A k \in raised :
                  \/ /\ k = Len(log.calls)
                     /\ gc'.busy_state = "toolhead"
                     /\ gc'.need_ack
                  \/ /\ inputfile
                        \/ \E j \in DOMAIN log.acks :
                               /\ log.acks[j].ncalls = k
                               /\ \E m \in DOMAIN log.out :
                                      /\ log.out[m] = "ok"
                                      /\ Count(SubSeq(log.out, 1, m),
                                               "Error: Internal error on command")
                                             >= Cardinality({i \in raised : i <= k})
                     /\ k < Len(log.calls) \/ gc'.busy_state = "None"
           /\ gc'.busy_state = "None" => Len(gc'.input_commands) = 1
           /\ gc'.busy_state # "None" =>
                  Len(gc'.input_commands)
                      = Len(gc.input_commands) + Len(SplitLines(log.data, <<>>)) - 1
                        - Len(log.lines)

HandlerError == [][HandlerErrorStep]_vars

\* G28 raised: the toolhead was shut down, the error was reported, G28 was
\* acknowledged, and the next line "G1X2" was dispatched and acknowledged
HandlerErrorWitness ==
    /\ ~inputfile
    /\ Len(gc.log.calls) = 2
    /\ gc.log.calls[1].cmd = Cmd("G", <<"2", "8">>)
    /\ gc.log.calls[1].raised
    /\ gc.log.calls[2].cmd = Cmd("G", <<"1">>)
    /\ gc.toolhead.shutdown
    /\ gc.log.out[1] = "Error: Internal error on command"
    /\ gc.log.out[2] = "ok"
    /\ gc.busy_state = "None"

(* C24: a busy poll that raises ends the busy state.  After an             *)
(* EndstopError the callback responds "Error: endstop" and does not shut   *)
(* the toolhead down; after any other exception it shuts the toolhead down *)
(* and responds "Error: Internal error in busy handler".  In both cases    *)
(* the response comes first (after the temperature report of a temperature *)
(* wait), the pending command is acknowledged next, the queued lines are   *)
(* processed with busy_state cleared, and the timer is NEVER when the      *)
(* callback ends idle and NOW when a resumed command stalled again.        *)
BusyErrorText(poll) ==
    IF poll = "endstop" THEN "Error: endstop" ELSE "Error: Internal error in busy handler"

BusyErrorStep ==
    (GcodeCallback /\ gc'.log.poll \in {"endstop", "error"}) =>
        LET log == gc'.log
            first == IF log.debug # <<>> /\ log.debug[1] # BusyErrorText(log.poll)
                     THEN 2 ELSE 1
        IN /\ Len(log.debug) >= first
           /\ log.debug[first] = BusyErrorText(log.poll)
           /\ first = 2 => (gc.busy_state = "temp" /\ log.debug[1] = get_temp)
           /\ log.poll = "error" =>
                  /\ gc'.toolhead.shutdown
                  /\ Count(log.debug, BusyErrorText("error")) = 1
           /\ (log.poll = "endstop" /\ RaisedCalls(log.calls) = {}) =>
                  gc'.toolhead.shutdown = gc.toolhead.shutdown
           /\ \A k \in DOMAIN log.calls : log.calls[k].busy = "None"
           /\ (gc.need_ack /\ ~inputfile) =>
                  /\ log.acks # <<>>
                  /\ log.acks[1] = [ncalls |-> 0, busy |-> "None"]
                  /\ log.out[first] = BusyErrorText(log.poll)
                  /\ log.out[first + 1] = "ok"
           /\ log.lines = SubSeq(gc.input_commands, 1, Len(log.lines))
           /\ IF gc'.busy_state = "None"
              THEN /\ Len(log.lines) = Len(gc.input_commands) - 1
                   /\ gc'.busy_timer = NEVER
                   /\ inputfile \/ ~gc'.need_ack
              ELSE /\ log.calls # <<>>
                   /\ gc'.busy_timer = NOW

BusyError == [][BusyErrorStep]_vars

\* the poll of a homing move raised EndstopError: the error was reported,
\* G28 was acknowledged, the queued "G1X2" ran and was acknowledged, and the
\* toolhead was not shut down
BusyErrorWitness ==
    /\ ~inputfile
    /\ gc.log.poll = "endstop"
    /\ gc.log.out = <<"Error: endstop", "ok", "ok">>
    /\ Len(gc.log.calls) = 1
    /\ gc.log.calls[1].cmd = Cmd("G", <<"1">>)
    /\ gc.log.calls[1].move = "ok"
    /\ ~gc.toolhead.shutdown
    /\ gc.busy_state = "None"

(* C25: for the steppers that share one enable pin, after any sequence of  *)
(* motor_enable calls enable_count is the number of steppers whose         *)
(* is_motor_enabled() is true, it lies between 0 and the number of         *)
(* steppers, and the last value written to the pin is 1 exactly when       *)
(* enable_count > 0; a motor_enable call that leaves every stepper's state *)
(* as it was changes neither the counter nor the pin.                      *)
EnabledSteppers == {s \in 1..NumSteppers : is_motor_enabled(s)}

\* the pin was written and the last value written is v
PinWritten(v) == enable_call # NoCall /\ pin_value = v

SharedPinInv ==
    /\ enable_count = Cardinality(EnabledSteppers)
    /\ 0 <= enable_count /\ enable_count <= NumSteppers
    /\ PinWritten(1) <=> (enable_count > 0)
    /\ enable_call = NoCall \/ PinWritten(0) \/ PinWritten(1)

SharedPinStep ==
    /\ need_motor_enable' = need_motor_enable
           => UNCHANGED <<enable_count, pin_value, pin_time, enable_call>>
    /\ need_motor_enable' # need_motor_enable
           => /\ Cardinality({s \in 1..NumSteppers :
                                  need_motor_enable'[s] # need_motor_enable[s]}) = 1
              /\ enable_call'.before = enable_count
              /\ enable_call'.enable
                     = (\E s \in 1..NumSteppers :
                            need_motor_enable[s] /\ ~need_motor_enable'[s])

SharedPin == []SharedPinInv /\ [][SharedPinStep]_vars

\* all steppers had been enabled and one was disabled again: the counter is
\* one short of the number of steppers, nothing was written, the pin is high
SharedPinWitness ==
    /\ enable_count = NumSteppers - 1
    /\ ~enable_call.enable
    /\ enable_call.before = NumSteppers
    /\ enable_call.wrote = <<>>
    /\ PinWritten(1)
    /\ Cardinality(EnabledSteppers) = NumSteppers - 1

(* C26: get_homed_offset.  With phases unset or the motor disabled it      *)
(* returns 0 and changes no setting.  With the endstop phase unknown it    *)
(* records position mod phases as the endstop phase and returns 0.         *)
(* Otherwise it returns d * step_dist for the one integer d with           *)
(* |d| <= accuracy that is congruent to position - endstop phase modulo    *)
(* phases, and raises EndstopError exactly when there is no such d, which  *)
(* is when accuracy < delta < phases - accuracy.                           *)
HomedCall == hstep' # hstep

Settings(h) ==
    <<h.homing_stepper_phases, h.homing_endstop_accuracy, h.homing_endstop_phase>>

HomedOffsetStep ==
    HomedCall =>
        LET c == hstep'.call
            phases == hstep.homing_stepper_phases
        IN IF phases = 0 \/ ~is_motor_enabled(1)
           THEN /\ c.ret = <<0>> /\ ~c.raised
                /\ Settings(hstep') = Settings(hstep)
           ELSE IF hstep.homing_endstop_phase = <<>>
           THEN /\ c.ret = <<0>> /\ ~c.raised
                /\ hstep'.homing_endstop_phase = <<c.pos % phases>>
                /\ hstep'.homing_stepper_phases = phases
                /\ hstep'.homing_endstop_accuracy = hstep.homing_endstop_accuracy
           ELSE LET accuracy == hstep.homing_endstop_accuracy[1]
                    endstop == hstep.homing_endstop_phase[1]
                    delta == (c.pos - endstop) % phases
                    fits == {d \in -MaxPhases..MaxPhases :
                                 /\ d <= accuracy /\ -d <= accuracy
                                 /\ (d - (c.pos - endstop)) % phases = 0}
                IN /\ Settings(hstep') = Settings(hstep)
                   /\ Cardinality(fits) <= 1
                   /\ c.raised <=> fits = {}
                   /\ c.raised <=> (accuracy < delta /\ delta < phases - accuracy)
                   /\ c.raised => c.ret = <<>>
                   /\ \A d \in fits : c.ret = <<d * StepDist>>

HomedOffsetInv ==
    hstep.homing_stepper_phases # 0 =>
        /\ hstep.homing_endstop_accuracy[1] < hstep.homing_stepper_phases \div 2
        /\ hstep.homing_endstop_phase # <<>> =>
               /\ 0 <= hstep.homing_endstop_phase[1]
               /\ hstep.homing_endstop_phase[1] < hstep.homing_stepper_phases

HomedOffset == []HomedOffsetInv /\ [][HomedOffsetStep]_vars

\* an enabled stepper with phase tracking stopped one phase before its
\* endstop phase: the offset is minus one step
HomedOffsetWitness ==
    /\ is_motor_enabled(1)
    /\ hstep.homing_stepper_phases = 4
    /\ hstep.homing_endstop_accuracy = <<1>>
    /\ hstep.homing_endstop_phase = <<0>>
    /\ hstep.call = [pos |-> -1, ret |-> <<0 - StepDist>>, raised |-> FALSE]

(* C27: in file-input mode the parser never writes to its fd: no callback  *)
(* writes an ok or a response, whatever it logs through logging.debug;     *)
(* and M109, M190, M303 and M119 do not put the parser into a busy state:  *)
(* the parser never waits for a temperature or an endstop query, and a     *)
(* callback whose last command is one of the four ends idle or waiting     *)
(* for the toolhead.                                                       *)
WaitCommands ==
    {Cmd("M", <<"1", "0", "9">>), Cmd("M", <<"1", "9", "0">>),
     Cmd("M", <<"3", "0", "3">>), Cmd("M", <<"1", "1", "9">>)}

FileInputSilentInv ==
    inputfile =>
        /\ gc.log.out = <<>>
        /\ gc.log.acks = <<>>
        /\ gc.busy_state \notin {"temp", "query"}

FileInputSilentStep ==
    (inputfile /\ GcodeCallback) =>
        /\ \A k \in DOMAIN gc'.log.calls :
               gc'.log.calls[k].cmd \in WaitCommands
                   => IF k < Len(gc'.log.calls)
                      THEN gc'.log.calls[k + 1].busy = "None"
                      ELSE gc'.busy_state \in {"None", "toolhead"}
        /\ gc'.last_temp_time = gc.last_temp_time

FileInputSilent == []FileInputSilentInv /\ [][FileInputSilentStep]_vars

\* a file-input parser ran M109 S1: the target is set, the parser is not
\* waiting, and nothing was written
FileInputSilentWitness ==
    /\ inputfile
    /\ Len(gc.log.calls) = 1
    /\ gc.log.calls[1].cmd = Cmd("M", <<"1", "0", "9">>)
    /\ ~gc.log.calls[1].raised
    /\ gc.toolhead.target["heater_nozzle"] = 1
    /\ gc.busy_state = "None"
    /\ gc.log.out = <<>>

(* C28: G92.  For every axis given with a value v the command leaves       *)
(* last_position - base_position = v on that axis, the axes not given keep *)
(* their base_position, and with no axis given base_position becomes       *)
(* last_position; G92 changes neither last_position nor the toolhead's     *)
(* position and calls no move.                                             *)
OneCommand(cmd) ==
    /\ GcodeCallback
    /\ Len(gc'.log.calls) = 1
    /\ gc'.log.calls[1].cmd = cmd
    /\ Len(gc'.log.lines) = 1

\* what G92 must leave behind, for the parameters of its line and the axes
\* named among them
SetPositionEffect(parts, given) ==
    /\ gc'.last_position = gc.last_position
    /\ gc'.toolhead.position = gc.toolhead.position
    /\ gc'.log.calls[1].move = "none"
    /\ ~gc'.log.calls[1].raised =>
           /\ \A p \in given :
                  gc'.last_position[p] - gc'.base_position[p]
                      = Float(Param(parts, AxisOrder[p + 1]))
           /\ \A p \in Axes \ given :
                  given # {} => gc'.base_position[p] = gc.base_position[p]
           /\ given = {} => gc'.base_position = gc.last_position

SetPositionStep ==
    OneCommand(Cmd("G", <<"9", "2">>)) =>
        \A parts \in {ParseLine(gc'.log.lines[1]).params} :
            \A given \in {{p \in Axes : HasParam(parts, AxisOrder[p + 1])}} :
                SetPositionEffect(parts, given)

SetPosition == [][SetPositionStep]_vars

\* "G92X3" with the head at x = 1: the origin of X moved to -2, Y kept its
\* origin
SetPositionWitness ==
    /\ Len(gc.log.calls) = 1
    /\ gc.log.lines = << <<"G", "9", "2", "X", "3">> >>
    /\ gc.log.calls[1].cmd = Cmd("G", <<"9", "2">>)
    /\ gc.last_position[0] = 1
    /\ gc.base_position[0] = -2
    /\ gc.last_position[1] = 1
    /\ gc.base_position[1] = 0
    /\ gc.toolhead.position = gc.last_position

(* C29: coordinate mode.  G90 selects absolute and G91 relative            *)
(* coordinates and change nothing else.  A G0/G1 whose values are well     *)
(* formed sets, for each of X, Y, Z named with value v, last_position to   *)
(* v + base_position in absolute mode and to last_position + v in relative *)
(* mode; the axes not named keep last_position; toolhead.move is called    *)
(* with the result, so that after a move that succeeded the toolhead       *)
(* stands at last_position.                                                *)
MoveTarget(parts, p) ==
    IF ~HasParam(parts, AxisOrder[p + 1]) THEN gc.last_position[p]
    ELSE IF gc.absolutecoord
    THEN Float(Param(parts, AxisOrder[p + 1])) + gc.base_position[p]
    ELSE gc.last_position[p] + Float(Param(parts, AxisOrder[p + 1]))

MoveEffect(parts) ==
    LET call == gc'.log.calls[1]
    IN /\ call.move = "none" <=> (call.raised /\ gc'.toolhead.position = gc.toolhead.position
                                  /\ \E p \in Axes :
                                         /\ HasParam(parts, AxisOrder[p + 1])
                                         /\ ~IsNumber(Param(parts, AxisOrder[p + 1])))
       /\ call.move \in {"ok", "error"} =>
              \A p \in 0..2 : gc'.last_position[p] = MoveTarget(parts, p)
       /\ call.move = "ok" =>
              /\ gc'.toolhead.position = gc'.last_position
              /\ ~call.raised
       /\ \A p \in Axes :
              ~HasParam(parts, AxisOrder[p + 1]) =>
                  (call.move # "endstop" => gc'.last_position[p] = gc.last_position[p])
       /\ gc'.base_position = gc.base_position
       /\ gc'.absolutecoord = gc.absolutecoord

ModeEffect(absolute) ==
    /\ gc'.absolutecoord = absolute
    /\ gc'.last_position = gc.last_position
    /\ gc'.base_position = gc.base_position
    /\ gc'.toolhead.position = gc.toolhead.position
    /\ gc'.log.calls[1].move = "none"

CoordinateModeStep ==
    /\ (OneCommand(Cmd("G", <<"1">>)) \/ OneCommand(Cmd("G", <<"0">>))) =>
           \A parts \in {ParseLine(gc'.log.lines[1]).params} : MoveEffect(parts)
    /\ OneCommand(Cmd("G", <<"9", "0">>)) => ModeEffect(TRUE)
    /\ OneCommand(Cmd("G", <<"9", "1">>)) => ModeEffect(FALSE)

CoordinateMode == [][CoordinateModeStep]_vars

\* "G1X2" in relative mode with the head at x = 1 and the origin of X at 1:
\* the head moved to x = 3, Y stayed
CoordinateModeWitness ==
    /\ Len(gc.log.calls) = 1
    /\ gc.log.lines = << <<"G", "1", "X", "2">> >>
    /\ gc.log.calls[1].move = "ok"
    /\ ~gc.absolutecoord
    /\ gc.base_position[0] = 1
    /\ gc.last_position[0] = 3
    /\ gc.last_position[1] = 1
    /\ gc.toolhead.position = gc.last_position

\* main: max(msgproto.DefaultMessages.keys())
MaxDefaultId ==
    CHOOSE i \in DOMAIN DefaultMessages : \A j \in DOMAIN DefaultMessages : j <= i

\* the format strings the id loop added to msg_to_id
NewMessages == DOMAIN msg_to_id \ Range(DefaultMessages)

\* the id loop has started: msg_to_id holds the default messages
IdsAssigned == b_pc \in {"ids", "generate", "done"}

MessageIdsInv ==
    IdsAssigned =>
        /\ \A i \in DOMAIN DefaultMessages :
               /\ DefaultMessages[i] \in DOMAIN msg_to_id
               /\ msg_to_id[DefaultMessages[i]] = i
        /\ \A m \in NewMessages : msg_to_id[m] > MaxDefaultId
        /\ {msg_to_id[m] : m \in NewMessages} = (MaxDefaultId + 1)..msgid
        /\ \A m1, m2 \in DOMAIN msg_to_id :
               msg_to_id[m1] = msg_to_id[m2] => m1 = m2

MessageIdsStep ==
    IdsAssigned =>
        /\ \A m \in DOMAIN msg_to_id :
               m \in DOMAIN msg_to_id' /\ msg_to_id'[m] = msg_to_id[m]
        /\ \A m \in DOMAIN msg_to_id' \ DOMAIN msg_to_id :
               /\ msgid' = msgid + 1
               /\ msg_to_id'[m] = msgid'
        /\ DOMAIN msg_to_id' = DOMAIN msg_to_id => msgid' = msgid

\* C30: once the id loop has started, every default message has its
\* predefined id; every other format string in msg_to_id has an id above
\* all default ids, and these ids are exactly max-default+1 .. msgid; no two
\* format strings share an id; and a step never changes the id of a format
\* string that has one: a format string new to msg_to_id gets msgid + 1, a
\* format string already there leaves msg_to_id and msgid as they were.
MessageIds == []MessageIdsInv /\ [][MessageIdsStep]_vars

\* the build finished with two new format strings, one of which was met
\* twice by the id loop (a command and an encoder of the same message)
MessageIdsWitness ==
    /\ b_pc = "done"
    /\ Cardinality(NewMessages) >= 2
    /\ \E k \in 1..Len(encoders) :
           /\ encoders[k].name \in commands
           /\ MsgOfFormat(encoders[k].msg) \in NewMessages

\* a step that is one call of get_ffi
FfiCall == ffi_log'.calls = ffi_log.calls + 1

\* the calls of get_ffi that returned, by their position in the log
ReturnedCalls(log) == {k \in 1..Len(log.rets) : ~log.rets[k].raised}

\* the directory is one in which check_build_code would run the compiler
Stale(f) ==
    ObjTimes(f) = {} \/ (f.src_times # {} /\ NeedBuild(f.src_times, ObjTimes(f)))

SingletonInv ==
    /\ \A k \in ReturnedCalls(ffi_log) :
           /\ ffi_log.rets[k].main = FFI_main /\ ffi_log.rets[k].lib = FFI_lib
           /\ FFI_main # None /\ FFI_lib # None
    /\ ReturnedCalls(ffi_log) = {} => FFI_lib = None

SingletonStep ==
    FfiCall =>
        LET ret == ffi_log'.rets[Len(ffi_log'.rets)]
        IN  IF ReturnedCalls(ffi_log) # {}
            THEN /\ ffi_log'.checks = ffi_log.checks
                 /\ ffi_log'.builds = ffi_log.builds
                 /\ ffi_log'.ffis = ffi_log.ffis
                 /\ ffi_log'.dlopens = ffi_log.dlopens
                 /\ UNCHANGED <<FFI_main, FFI_lib, fs>>
                 /\ ~ret.raised
                 /\ ret.main = FFI_main /\ ret.lib = FFI_lib
            ELSE /\ ffi_log'.checks = ffi_log.checks + 1
                 /\ ffi_log'.builds = ffi_log.builds + (IF Stale(fs) THEN 1 ELSE 0)
                 /\ ~ret.raised =>
                        /\ ffi_log'.ffis = ffi_log.ffis + 1
                        /\ ffi_log'.dlopens = ffi_log.dlopens + 1
                        /\ FFI_main' = ffi_log'.ffis /\ FFI_lib' = ffi_log'.dlopens

====
